---- MODULE Spec2Model ----
(***************************************************************************)
(* Janus: a bi-directional Discord <-> Fluxer chat bridge.                 *)
(*                                                                         *)
(* The module models the messaging pipeline of the repository:             *)
(*   - BridgeService (bridge.ts) and the bridge event handlers of          *)
(*     Janus.start (index.ts), DeliveryWorkerManager                       *)
(*     (deliveryWorkerManager.ts);                                         *)
(*   - the loop filter (loopFilter.ts) and the rate limiter                *)
(*     (rateLimiter.ts), both kept in Redis;                               *)
(*   - the BullMQ queues (queues.ts), the RouterWorker and the two         *)
(*     delivery workers;                                                   *)
(*   - the two platform clients as far as the pipeline uses them.          *)
(*                                                                         *)
(* Conventions.                                                            *)
(*   - Wall-clock time `now` is counted in whole seconds.                  *)
(*   - A string that the code builds with a template literal is a          *)
(*     sequence of its pieces; two such strings are equal iff the          *)
(*     sequences are equal (ids hold neither ':' nor '_').                 *)
(*   - A handler is cut into several actions at an `await` on I/O where    *)
(*     the step of another callback in between can change its outcome.     *)
(***************************************************************************)
EXTENDS Integers, Sequences, FiniteSets, TLC

(***************************************************************************)
(* Bounds of the model (not program constants).                            *)
(***************************************************************************)
MaxOps == 2          \* bridge-service calls (create / toggle / delete) issued
MaxChecks == 10      \* checkRateLimit calls issued when the limiter runs alone
MaxNow == 3          \* last second the clock reaches when the limiter runs alone
MaxUserOps == 1      \* messages posted, edited or deleted by platform users
MaxSeeds == 2        \* jobs lying in a delivery worker's queue at the start
Start == 58          \* the second the pipeline is observed from
Horizon == 72        \* last second the clock of the pipeline reaches
MaxLen == 2          \* longest text handed to generateContentHash on its own
MaxHashCalls == 2    \* generateContentHash calls made when the filter runs alone
MaxUpdates == 2      \* MSG_UPDATE jobs queued for one source message
MaxStarts == 2       \* times the process is started
MaxJobs == 3         \* jobs there can be when the process is restarted
MaxAvatarLen == 2    \* longest avatar value handed to the Fluxer normalizer on its own
MaxNormalized == 2   \* normalizeToCanonical calls made when the normalizer runs alone
MaxRepairs == 2      \* repairBridgeWebhook calls made on demand
MaxHooks == 4        \* webhooks that repairs create

(***************************************************************************)
(* Domains.                                                                *)
(***************************************************************************)
NULL == "null"

BridgeIds == {"b1", "b2", "b3"}
DiscordChannels == {"d1", "d2"}
FluxerChannels == {"f1"}
Contents == {<<"x">>, <<"y">>}
AuthorNames == {<<"u">>}

Truthy(x) == x # NULL /\ x # ""

Without(f, k) == [x \in DOMAIN f \ {k} |-> f[x]]

With(f, k, v) == [x \in DOMAIN f \cup {k} |-> IF x = k THEN v ELSE f[x]]

(***************************************************************************)
(* Queue names.  queues.ts names the delivery queue the router adds to;    *)
(* each delivery worker names the queue it consumes in its constructor.    *)
(* A BullMQ Worker consumes the queue whose name equals its own, as a      *)
(* literal string: '*' is an ordinary character.                           *)
(***************************************************************************)
getDeliveryQueue(platform, channelId) ==
    <<"janus:deliver:", platform, ":", channelId>>

FluxerDeliveryWorkerQueue(channelId) == <<"janus_deliver_fluxer_", channelId>>

DiscordDeliveryWorkerQueue == <<"janus_deliver_discord_*">>

(***************************************************************************)
(* Program constants.                                                      *)
(***************************************************************************)
PER_CHANNEL_LIMIT == 5     \* RATE_LIMIT_PER_CHANNEL default
WINDOW_SECONDS == 2
HASH_TTL_SECONDS == 10     \* LOOP_FILTER_HASH_TTL default
DELIVERY_CONCURRENCY == 5  \* concurrency of a delivery worker

Platforms == {"discord", "fluxer"}

ChannelsOf(platform) == IF platform = "discord" THEN DiscordChannels ELSE FluxerChannels

VARIABLES
    now,          \* wall clock, seconds
    hashes,       \* Redis janus:hash:<h> keys: hash -> expiry instant
    rate,         \* Redis janus:ratelimit:<platform>:<channel> keys: key -> [count, exp]
    grants,       \* history: <<platform, channel, second>> -> checkRateLimit calls that returned true
    checks,       \* history: number of checkRateLimit calls made
    regs,         \* history: registerOutgoingHash calls, [content, authorName, at, hash]
    drops,        \* history: events the loop check dropped, [msg, at]
    tracker,      \* Redis janus:fluxer:edit-update:<pair>:<platform>:<msg> keys: key -> [id, exp]
    jobs,         \* BullMQ jobs in Redis: job id -> record
    msgs,         \* messages on the two platforms: message id -> record
    gateway,      \* per platform, the gateway events not yet handled, oldest first
    pending,      \* FluxerClient.pendingWebhookMessages, in insertion order
    messageMap,   \* MessageMap table: set of rows
    calls,        \* history: outbound platform calls, [job, api, late, mapped]
    userOps,      \* history: number of actions taken by platform users
    bridges,      \* BridgePair table: id -> row
    usedIds,      \* history: bridge ids handed out so far
    ops,          \* BridgeService calls whose DB statement ran, emit pending
    opCount,      \* number of BridgeService calls issued
    workers,      \* DeliveryWorkerManager.workers: bridgeId -> WorkerSet
    workerObjs,   \* the BullMQ Worker objects: id -> [platform, queue, state]
    stopTasks,    \* stopForBridge calls suspended at an await
    lastCall,     \* the last startForBridge / stopForBridge call and its effect
    starts,       \* history: number of times the process has been started
    normalized,   \* history: Fluxer normalizer calls, [userId, avatar, result]
    hooks,        \* history: createWebhook calls of repairs, [n, platform, bridgeId, id, call]
    repairs,      \* repairBridgeWebhook calls that have read the row and await createWebhook
    startup       \* Janus.start and Janus.stop: [stage, todo, busy, again]; count and
                  \* last of the repair calls

repairVars == <<hooks, repairs, startup>>

procVars == <<starts, normalized, repairVars>>

mgrVars == <<bridges, usedIds, ops, opCount, workers, workerObjs, stopTasks, lastCall, procVars>>

kvVars == <<hashes, rate, grants, checks, regs, drops, tracker>>

pipeVars == <<jobs, msgs, gateway, pending, messageMap, calls, userOps>>

vars == <<now, kvVars, pipeVars, mgrVars>>

otherVars == <<now, kvVars, pipeVars>>

\* Janus.start is over: the startup repair has run and the workers are loaded.
Started == [stage |-> "run", again |-> FALSE, todo |-> {}, busy |-> 0, calls |-> 0,
            last |-> [bridgeId |-> NULL, noop |-> FALSE]]

InitRepaired == hooks = {} /\ repairs = {} /\ startup = Started

(***************************************************************************)
(* rateLimiter.ts.  INCR creates the key with value 1; the key gets its    *)
(* TTL only from the call that saw 1; Redis removes the key when the TTL   *)
(* has run out, so the next INCR starts from 1 again.                      *)
(***************************************************************************)
RateKey(platform, channelId) == <<"janus:ratelimit:", platform, ":", channelId>>

currentUsage(platform, channelId) ==
    IF RateKey(platform, channelId) \in DOMAIN rate
    THEN rate[RateKey(platform, channelId)].count + 1
    ELSE 1

\* The value checkRateLimit returns.
RateAllowed(platform, channelId) == ~(currentUsage(platform, channelId) > PER_CHANNEL_LIMIT)

checkRateLimit(platform, channelId) ==
    LET k == RateKey(platform, channelId)
        n == currentUsage(platform, channelId)
        g == <<platform, channelId, now>>
    IN /\ rate' = With(rate, k, [count |-> n,
                                  exp |-> IF n = 1 THEN now + WINDOW_SECONDS ELSE rate[k].exp])
       /\ grants' = IF RateAllowed(platform, channelId)
                     THEN With(grants, g, IF g \in DOMAIN grants THEN grants[g] + 1 ELSE 1)
                     ELSE grants

\* getRateLimitDelay, in seconds: PTTL of the key, or the whole window when
\* the key has no TTL or is gone.
getRateLimitDelay(platform, channelId) ==
    LET k == RateKey(platform, channelId)
    IN IF k \in DOMAIN rate /\ rate[k].exp - now > 0
       THEN rate[k].exp - now
       ELSE WINDOW_SECONDS

\* Keys of a Redis map that are still alive at instant t.
\* A key without TTL lives on.
NoTtl == -1

Alive(m, t) == {k \in DOMAIN m : m[k].exp = NoTtl \/ m[k].exp > t}

\* The clock advances by d seconds; Redis drops the keys whose TTL ran out.
Tick(d) ==
    /\ d > 0
    /\ now' = now + d
    /\ hashes' = [k \in Alive(hashes, now + d) |-> hashes[k]]
    /\ rate' = [k \in Alive(rate, now + d) |-> rate[k]]
    /\ tracker' = [k \in Alive(tracker, now + d) |-> tracker[k]]
    /\ UNCHANGED <<grants, checks, regs, drops, pipeVars, mgrVars>>

\* A caller of checkRateLimit, here on its own.
RateProbe(platform, channelId) ==
    /\ checks < MaxChecks
    /\ checkRateLimit(platform, channelId)
    /\ checks' = checks + 1
    /\ UNCHANGED <<now, hashes, regs, drops, tracker, pipeVars, mgrVars>>

(***************************************************************************)
(* loopFilter.ts.  A text is the sequence of its characters.  SHA-256 is   *)
(* taken to be collision free: the model keeps the hashed payload itself.  *)
(***************************************************************************)
timestampMinute(t) == t \div 60

Digits == <<"0", "1", "2", "3", "4", "5", "6", "7", "8", "9">>

RECURSIVE toString(_)
\* Number.prototype.toString of a natural number: its decimal digits.
toString(n) ==
    IF n < 10 THEN <<Digits[n + 1]>>
    ELSE toString(n \div 10) \o <<Digits[(n % 10) + 1]>>

\* generateContentHash with the instant itself in place of its minute.
generateContentHashOfInstant(content, authorName, t) ==
    content \o <<"|">> \o authorName \o <<"|">> \o toString(t)

\* The payload `${content}|${authorName}|${timestampMinute}` at instant t.
generateContentHash(content, authorName, t) ==
    content \o <<"|">> \o authorName \o <<"|">> \o toString(timestampMinute(t))

\* registerOutgoingHash that sets the key without EX.
registerOutgoingHashNoExpiry(h, content, authorName, t) ==
    With(h, generateContentHash(content, authorName, t), [exp |-> Horizon + 1])

\* The hashes map after registerOutgoingHash(content, authorName) at instant t.
registerOutgoingHash(h, content, authorName, t) ==
    With(h, generateContentHash(content, authorName, t), [exp |-> t + HASH_TTL_SECONDS])

isLoopMessage(content, authorName) ==
    generateContentHash(content, authorName, now) \in DOMAIN hashes

Registered(content, authorName) ==
    /\ hashes' = registerOutgoingHash(hashes, content, authorName, now)
    /\ regs' = regs \cup {[content |-> content, authorName |-> authorName, at |-> now,
                            hash |-> generateContentHash(content, authorName, now)]}

InitKv ==
    /\ hashes = <<>> /\ rate = <<>> /\ grants = <<>> /\ checks = 0
    /\ regs = {} /\ drops = {} /\ tracker = <<>>

\* Nothing is queued or in flight.  Two messages are on the platforms from
\* before: message 1 in Discord channel d1, message 2 in Fluxer channel f1.
InitPipe ==
    /\ jobs = <<>>
    /\ msgs = (1 :> [platform |-> "discord", channelId |-> "d1", content |-> <<"x">>,
                      author |-> <<"u">>, bot |-> FALSE, by |-> 0, depth |-> 0,
                      deleted |-> FALSE]
               @@ 2 :> [platform |-> "fluxer", channelId |-> "f1", content |-> <<"x">>,
                        author |-> <<"u">>, bot |-> FALSE, by |-> 0, depth |-> 0,
                        deleted |-> FALSE])
    /\ gateway = [p \in Platforms |-> <<>>]
    /\ pending = <<>> /\ messageMap = {} /\ calls = {} /\ userOps = 0

(***************************************************************************)
(* The two platforms.  A message carries the job whose send produced it    *)
(* (`by`, 0 for a message typed by a user) and the number of bridge hops   *)
(* between it and the user's message it stems from (`depth`).              *)
(* Discord flags the author of a webhook message as a bot.  Whether Fluxer *)
(* does is not fixed by the repository: either flag can come back.         *)
(***************************************************************************)
FreshMsg == Cardinality(DOMAIN msgs) + 1

Message(platform, channelId, content, author, bot, by, depth) ==
    [platform |-> platform, channelId |-> channelId, content |-> content,
     author |-> author, bot |-> bot, by |-> by, depth |-> depth, deleted |-> FALSE]

GatewayEvent(type, id, m) ==
    [type |-> type, id |-> id, channelId |-> m.channelId, content |-> m.content,
     author |-> m.author, bot |-> m.bot]

Emitted(gw, platform, ev) == [gw EXCEPT ![platform] = Append(@, ev)]

UserPost(platform, channelId, content, author) ==
    /\ userOps < MaxUserOps
    /\ LET m == Message(platform, channelId, content, author, FALSE, 0, 0)
       IN /\ msgs' = With(msgs, FreshMsg, m)
          /\ gateway' = Emitted(gateway, platform, GatewayEvent("create", FreshMsg, m))
    /\ userOps' = userOps + 1
    /\ UNCHANGED <<now, kvVars, jobs, pending, messageMap, calls, mgrVars>>

UserEdit(id, content) ==
    /\ userOps < MaxUserOps
    /\ id \in DOMAIN msgs /\ msgs[id].by = 0 /\ ~msgs[id].deleted
    /\ msgs[id].content # content
    /\ msgs' = [msgs EXCEPT ![id].content = content]
    /\ gateway' = Emitted(gateway, msgs[id].platform, GatewayEvent("update", id, msgs'[id]))
    /\ userOps' = userOps + 1
    /\ UNCHANGED <<now, kvVars, jobs, pending, messageMap, calls, mgrVars>>

UserDelete(id) ==
    /\ userOps < MaxUserOps
    /\ id \in DOMAIN msgs /\ msgs[id].by = 0 /\ ~msgs[id].deleted
    /\ msgs' = [msgs EXCEPT ![id].deleted = TRUE]
    /\ gateway' = Emitted(gateway, msgs[id].platform, GatewayEvent("delete", id, msgs[id]))
    /\ userOps' = userOps + 1
    /\ UNCHANGED <<now, kvVars, jobs, pending, messageMap, calls, mgrVars>>

(***************************************************************************)
(* BullMQ jobs.  `src` is the job or gateway event a job stems from,       *)
(* `checkedAt` the instant of the last loop check its event passed (-1     *)
(* when it passed none) and `seen` the registrations made before it.       *)
(***************************************************************************)
IngestQueueName == <<"janus:ingest">>
INGEST_ATTEMPTS == 3
INGEST_BACKOFF_SECONDS == 1
DELIVERY_ATTEMPTS == 5
DELIVERY_BACKOFF_SECONDS == 2
CAPTURE_TIMEOUT_SECONDS == 5
EDIT_UPDATE_TTL_SECONDS == 604800

FreshJob == Cardinality(DOMAIN jobs) + 1

CanonicalEvent(type, platform, channelId, messageId, content, author) ==
    [type |-> type, platform |-> platform, channelId |-> channelId,
     messageId |-> messageId, content |-> content, author |-> author,
     attachments |-> 0]

Job(queue, event, pairId, targetPlatform, targetChannelId, webhookId, webhookToken, src, at) ==
    [queue |-> queue, event |-> event, bridgePairId |-> pairId,
     targetPlatform |-> targetPlatform, targetChannelId |-> targetChannelId,
     targetGuildId |-> NULL,
     discordWebhookId |-> webhookId, discordWebhookToken |-> webhookToken,
     state |-> "waiting", attemptsMade |-> 0, runAt |-> 0, pc |-> "new",
     pairs |-> {}, destMsgId |-> 0, orig |-> 0, body |-> <<>>, worker |-> 0, deniedAt |-> -1,
     src |-> src, checkedAt |-> at, seen |-> IF at < 0 THEN {} ELSE regs, late |-> FALSE,
     carried |-> FALSE]

\* ingestQueue.add('ingest', { event })
IngestAdd(js, event, at) ==
    With(js, Cardinality(DOMAIN js) + 1,
         Job(IngestQueueName, event, NULL, NULL, NULL, NULL, NULL, event.messageId, at))

(***************************************************************************)
(* Gateway handlers: DiscordClient / FluxerClient listeners followed by    *)
(* the listeners Janus.startDiscord / startFluxer put on the clients.      *)
(***************************************************************************)
\* Janus 'message' listener: loop check, then add to the ingest queue.
OnMessage(platform, ev) ==
    IF isLoopMessage(ev.content, ev.author)
    THEN /\ drops' = drops \cup {[msg |-> ev.id, at |-> now]}
         /\ UNCHANGED jobs
    ELSE /\ jobs' = IngestAdd(jobs, CanonicalEvent("MSG_CREATE", platform, ev.channelId,
                                                   ev.id, ev.content, ev.author), now)
         /\ UNCHANGED drops

OnMessageUpdate(platform, ev) ==
    /\ jobs' = IngestAdd(jobs, CanonicalEvent("MSG_UPDATE", platform, ev.channelId,
                                              ev.id, ev.content, ev.author), -1)
    /\ UNCHANGED drops

OnMessageDelete(platform, ev) ==
    /\ jobs' = IngestAdd(jobs, CanonicalEvent("MSG_DELETE", platform, ev.channelId,
                                              ev.id, <<>>, <<>>), -1)
    /\ UNCHANGED drops

Ignored == UNCHANGED <<jobs, drops>>

DiscordMessageCreate(ev) ==
    IF ev.bot THEN Ignored ELSE OnMessage("discord", ev)

DiscordMessageUpdate(ev) ==
    IF ev.bot \/ ev.content = <<>> THEN Ignored ELSE OnMessageUpdate("discord", ev)

DiscordMessageDelete(ev) ==
    IF ev.bot THEN Ignored ELSE OnMessageDelete("discord", ev)

DiscordGateway ==
    /\ gateway["discord"] # <<>>
    /\ LET ev == Head(gateway["discord"])
       IN CASE ev.type = "create" -> DiscordMessageCreate(ev)
            [] ev.type = "update" -> DiscordMessageUpdate(ev)
            [] ev.type = "delete" -> DiscordMessageDelete(ev)
    /\ gateway' = [gateway EXCEPT !["discord"] = Tail(@)]
    /\ UNCHANGED <<now, hashes, rate, grants, checks, regs, tracker, msgs, pending,
                   messageMap, calls, userOps, mgrVars>>

\* Index of the first pending webhook send that matches, 0 when there is none.
findPendingWebhookMessage(channelId, content, username) ==
    LET hits == {i \in 1..Len(pending) : /\ pending[i].channelId = channelId
                                          /\ pending[i].content = content
                                          /\ pending[i].username = username}
    IN IF hits = {} THEN 0 ELSE CHOOSE i \in hits : \A k \in hits : i <= k

RemoveAt(q, i) == SubSeq(q, 1, i - 1) \o SubSeq(q, i + 1, Len(q))

\* pending.resolve(id): the sendWebhook call that waits on the entry, if it
\* still does, goes on with this id.
Resolved(js, entry, id) ==
    IF js[entry.job].pc = "sent" /\ js[entry.job].state = "active"
    THEN [js EXCEPT ![entry.job].pc = "resolved", ![entry.job].destMsgId = id]
    ELSE js

FluxerMessageCreate(ev) ==
    LET i == findPendingWebhookMessage(ev.channelId, ev.content, ev.author)
    IN IF i # 0
       THEN /\ pending' = RemoveAt(pending, i)
            /\ jobs' = Resolved(jobs, pending[i], ev.id)
            /\ UNCHANGED drops
       ELSE /\ UNCHANGED pending
            /\ IF ev.bot \/ ev.content = <<>>
               THEN Ignored
               ELSE OnMessage("fluxer", ev)

FluxerMessageUpdate(ev) ==
    /\ UNCHANGED pending
    /\ IF ev.content = <<>> \/ ev.bot THEN Ignored ELSE OnMessageUpdate("fluxer", ev)

FluxerMessageDelete(ev) ==
    /\ UNCHANGED pending
    /\ OnMessageDelete("fluxer", ev)

FluxerGateway ==
    /\ gateway["fluxer"] # <<>>
    /\ LET ev == Head(gateway["fluxer"])
       IN CASE ev.type = "create" -> FluxerMessageCreate(ev)
            [] ev.type = "update" -> FluxerMessageUpdate(ev)
            [] ev.type = "delete" -> FluxerMessageDelete(ev)
    /\ gateway' = [gateway EXCEPT !["fluxer"] = Tail(@)]
    /\ UNCHANGED <<now, hashes, rate, grants, checks, regs, tracker, msgs,
                   messageMap, calls, userOps, mgrVars>>

(***************************************************************************)
(* DeliveryWorkerManager                                                   *)
(***************************************************************************)
NoCall == [op |-> "none", bridgeId |-> NULL, had |-> FALSE,
           created |-> 0, closed |-> 0, changed |-> FALSE]

FreshWorker(objs) == CHOOSE n \in 1..(Cardinality(DOMAIN objs) + 1) : n \notin DOMAIN objs

\* new DiscordDeliveryWorker(client, channelId) / new FluxerDeliveryWorker(client, channelId)
NewWorkerSet(objs, bridgeId, discordChannelId, fluxerChannelId) ==
    LET dw == FreshWorker(objs)
        o1 == With(objs, dw, [platform |-> "discord", queue |-> DiscordDeliveryWorkerQueue,
                              state |-> "running", bridgeId |-> bridgeId])
        fw == FreshWorker(o1)
        o2 == With(o1, fw, [platform |-> "fluxer",
                            queue |-> FluxerDeliveryWorkerQueue(fluxerChannelId),
                            state |-> "running", bridgeId |-> bridgeId])
    IN [objs |-> o2, set |-> [discord |-> dw, fluxer |-> fw]]

\* Worker.close(): a running worker stops taking jobs; close resolves once its
\* active jobs are done.  A second close() returns the same promise.
CloseWorker(objs, w) ==
    IF objs[w].state = "running" THEN [objs EXCEPT ![w].state = "closing"] ELSE objs

\* The continuations of the suspended stopForBridge calls that can run now.
\* First pass: `await workerSet.discord.close()` is over, call fluxer.close().
SettleDiscord(tasks, objs) ==
    LET ready == {t \in tasks : t.stage = "discord" /\ objs[t.set.discord].state = "closed"}
        closing == {t.set.fluxer : t \in ready}
    IN [tasks |-> (tasks \ ready) \cup {[t EXCEPT !.stage = "fluxer"] : t \in ready},
        objs |-> [w \in DOMAIN objs |->
                    IF w \in closing /\ objs[w].state = "running"
                    THEN [objs[w] EXCEPT !.state = "closing"] ELSE objs[w]]]

\* Second pass: `await workerSet.fluxer.close()` is over, this.workers.delete(bridgeId).
SettleFluxer(tasks, objs, wmap) ==
    LET ready == {t \in tasks : t.stage = "fluxer" /\ objs[t.set.fluxer].state = "closed"}
        gone == {t.bridgeId : t \in ready}
    IN [tasks |-> tasks \ ready,
        wmap |-> [b \in DOMAIN wmap \ gone |-> wmap[b]]]

\* Closed workers that nothing refers to any more are garbage.
Collect(objs, wmap, tasks) ==
    LET live == {wmap[b].discord : b \in DOMAIN wmap} \cup {wmap[b].fluxer : b \in DOMAIN wmap}
                \cup {t.set.discord : t \in tasks} \cup {t.set.fluxer : t \in tasks}
    IN [w \in {x \in DOMAIN objs : objs[x].state # "closed" \/ x \in live} |-> objs[w]]

Settle(tasks, objs, wmap) ==
    LET s1 == SettleDiscord(tasks, objs)
        s2 == SettleFluxer(s1.tasks, s1.objs, wmap)
    IN /\ stopTasks' = s2.tasks
       /\ workers' = s2.wmap
       /\ workerObjs' = Collect(s1.objs, s2.wmap, s2.tasks)

\* What a startForBridge / stopForBridge call did, read off the state change.
CallEffect(op, bridgeId) ==
    lastCall' = [op |-> op, bridgeId |-> bridgeId, had |-> (bridgeId \in DOMAIN workers),
                 created |-> Cardinality(DOMAIN workerObjs' \ DOMAIN workerObjs),
                 closed |-> Cardinality({w \in DOMAIN workerObjs :
                               w \notin DOMAIN workerObjs' \/
                               workerObjs'[w].state # workerObjs[w].state}),
                 changed |-> (workers' # workers)]

\* startForBridge without its `workers.has(bridgeId)` early return.
startForBridgeNoHas(bridgeId, discordChannelId, fluxerChannelId) ==
    LET n == NewWorkerSet(workerObjs, bridgeId, discordChannelId, fluxerChannelId)
    IN /\ workerObjs' = n.objs
       /\ workers' = With(workers, bridgeId, n.set)
       /\ UNCHANGED stopTasks

startForBridge(bridgeId, discordChannelId, fluxerChannelId) ==
    IF bridgeId \in DOMAIN workers
    THEN UNCHANGED <<workers, workerObjs, stopTasks>>
    ELSE LET n == NewWorkerSet(workerObjs, bridgeId, discordChannelId, fluxerChannelId)
         IN /\ workerObjs' = n.objs
            /\ workers' = With(workers, bridgeId, n.set)
            /\ UNCHANGED stopTasks

stopForBridge(bridgeId) ==
    IF bridgeId \notin DOMAIN workers
    THEN UNCHANGED <<workers, workerObjs, stopTasks>>
    ELSE LET ws == workers[bridgeId]
             objs == CloseWorker(workerObjs, ws.discord)
             task == [bridgeId |-> bridgeId, set |-> ws, stage |-> "discord"]
         IN Settle(stopTasks \cup {task}, objs, workers)

(***************************************************************************)
(* BridgeService.  Each call awaits its Prisma statement and emits its     *)
(* event when the statement's result arrives: the statement is one action  *)
(* and the emit another, and the results of two calls in flight may arrive *)
(* in either order.  EventEmitter.emit runs the listeners synchronously,   *)
(* each up to its first await on I/O.                                      *)
(***************************************************************************)
WebhookResults == {NULL, "wh"}

\* Prisma gives every row an id of its own (cuid): ids are never used twice.
FreshBridgeId == CHOOSE b \in BridgeIds \ usedIds : TRUE

\* A stored bridge joins the two channels.
PairExists(discordChannelId, fluxerChannelId) ==
    \E b \in DOMAIN bridges : /\ bridges[b].discordChannelId = discordChannelId
                              /\ bridges[b].fluxerChannelId = fluxerChannelId

\* The error createBridge throws on Prisma's P2002 (unique constraint).
AlreadyExists == <<"Bridge validation failed: ", "Bridge pair already exists">>

\* createBridge thrown out by the catch block: nothing stored, nothing emitted.
Rejected(error) ==
    /\ lastCall' = [op |-> "createBridge", bridgeId |-> NULL, had |-> TRUE, created |-> 0,
                    closed |-> 0, changed |-> FALSE, error |-> error]
    /\ UNCHANGED <<bridges, usedIds, ops, opCount, workers, workerObjs, stopTasks, procVars,
                   otherVars>>

\* createBridge from prisma.bridgePair.create on, for a pair the table
\* accepts.  The createWebhook results are the platforms' answers; the
\* default of isActive is the Prisma schema's, which is not part of the sources.
Stored(discordChannelId, fluxerChannelId, dWebhook, fWebhook, isActive) ==
    /\ opCount < MaxOps
    /\ BridgeIds \ usedIds # {}
    /\ LET row == [id |-> FreshBridgeId,
                   discordChannelId |-> discordChannelId,
                   fluxerChannelId |-> fluxerChannelId,
                   discordWebhookId |-> dWebhook, discordWebhookToken |-> dWebhook,
                   fluxerWebhookId |-> fWebhook, fluxerWebhookToken |-> fWebhook,
                   discordGuildId |-> "dg1", fluxerGuildId |-> NULL, isActive |-> isActive]
       IN /\ bridges' = With(bridges, row.id, row)
          /\ ops' = ops \cup {[kind |-> "bridge:created", id |-> row.id, row |-> row,
                               n |-> opCount]}
    /\ opCount' = opCount + 1
    /\ usedIds' = usedIds \cup {FreshBridgeId}
    /\ UNCHANGED <<workers, workerObjs, stopTasks, lastCall, procVars, otherVars>>

\* createBridge on a table without the unique constraint.
createBridgeUnchecked(discordChannelId, fluxerChannelId, dWebhook, fWebhook, isActive) ==
    Stored(discordChannelId, fluxerChannelId, dWebhook, fWebhook, isActive)

\* createBridge.  The table is unique on (discordChannelId, fluxerChannelId):
\* the create of a pair that exists fails with P2002.
createBridge(discordChannelId, fluxerChannelId, dWebhook, fWebhook, isActive) ==
    IF PairExists(discordChannelId, fluxerChannelId)
    THEN Rejected(AlreadyExists)
    ELSE Stored(discordChannelId, fluxerChannelId, dWebhook, fWebhook, isActive)

toggleBridge(bridgeId, active) ==
    /\ opCount < MaxOps
    /\ bridgeId \in DOMAIN bridges
    /\ LET row == [bridges[bridgeId] EXCEPT !.isActive = active]
       IN /\ bridges' = [bridges EXCEPT ![bridgeId] = row]
          /\ ops' = ops \cup {[kind |-> "bridge:toggled", id |-> bridgeId, row |-> row,
                               n |-> opCount]}
    /\ opCount' = opCount + 1
    /\ UNCHANGED <<usedIds, workers, workerObjs, stopTasks, lastCall, procVars, otherVars>>

deleteBridge(bridgeId) ==
    /\ opCount < MaxOps
    /\ bridgeId \in DOMAIN bridges
    /\ bridges' = Without(bridges, bridgeId)
    /\ ops' = ops \cup {[kind |-> "bridge:deleted", id |-> bridgeId,
                         row |-> bridges[bridgeId], n |-> opCount]}
    /\ opCount' = opCount + 1
    /\ UNCHANGED <<usedIds, workers, workerObjs, stopTasks, lastCall, procVars, otherVars>>

(***************************************************************************)
(* Webhook repair.  repairBridgeWebhook reads the row, awaits a            *)
(* createWebhook for every side that lacks credentials and then updates    *)
(* the row with what it got: the read is one action and the rest another,  *)
(* so that calls in flight interleave.  createWebhook returns null when    *)
(* the platform refuses.                                                   *)
(***************************************************************************)
HookNames == <<"wh1", "wh2", "wh3", "wh4", "wh5", "wh6">>

needsDiscordWebhook(bridge) ==
    ~Truthy(bridge.discordWebhookId) \/ ~Truthy(bridge.discordWebhookToken)

needsFluxerWebhook(bridge) ==
    ~Truthy(bridge.fluxerWebhookId) \/ ~Truthy(bridge.fluxerWebhookToken)

\* repairBridgeWebhook up to its first createWebhook: call number `call`
\* returns at once (no row, or nothing missing) or goes on as a task.
RepairRead(bridgeId, call) ==
    IF bridgeId \notin DOMAIN bridges
    THEN [task |-> {}, noop |-> FALSE]
    ELSE IF ~needsDiscordWebhook(bridges[bridgeId]) /\ ~needsFluxerWebhook(bridges[bridgeId])
    THEN [task |-> {}, noop |-> TRUE]
    ELSE [task |-> {[call |-> call, bridgeId |-> bridgeId,
                     needsDiscord |-> needsDiscordWebhook(bridges[bridgeId]),
                     needsFluxer |-> needsFluxerWebhook(bridges[bridgeId])]},
          noop |-> FALSE]

\* A repair called on demand (the /bridge repair command).
RepairCommand(bridgeId) ==
    /\ startup.calls < MaxRepairs
    /\ LET call == startup.calls + 1
           r == RepairRead(bridgeId, call)
       IN /\ repairs' = repairs \cup r.task
          /\ startup' = [startup EXCEPT
                            !.calls = call,
                            !.last = [bridgeId |-> bridgeId, noop |-> r.noop]]
    /\ UNCHANGED <<hooks, starts, normalized, bridges, usedIds, ops, opCount, workers,
                   workerObjs, stopTasks, lastCall, otherVars>>

\* The createWebhook calls of a task: one record per side that needs one.
Created(t, dok, fok) ==
    LET n == Cardinality(hooks)
        d == IF t.needsDiscord
             THEN {[n |-> n + 1, platform |-> "discord", bridgeId |-> t.bridgeId,
                    id |-> IF dok THEN HookNames[n + 1] ELSE NULL, call |-> t.call]}
             ELSE {}
        m == n + Cardinality(d)
        f == IF t.needsFluxer
             THEN {[n |-> m + 1, platform |-> "fluxer", bridgeId |-> t.bridgeId,
                    id |-> IF fok THEN HookNames[m + 1] ELSE NULL, call |-> t.call]}
             ELSE {}
    IN d \cup f

\* prisma.bridgePair.update with updateData: only the sides repaired.
Updated(row, made) ==
    LET d == {h \in made : h.platform = "discord" /\ h.id # NULL}
        f == {h \in made : h.platform = "fluxer" /\ h.id # NULL}
        r1 == IF d = {} THEN row
              ELSE [row EXCEPT !.discordWebhookId = (CHOOSE h \in d : TRUE).id,
                               !.discordWebhookToken = (CHOOSE h \in d : TRUE).id]
    IN IF f = {} THEN r1
       ELSE [r1 EXCEPT !.fluxerWebhookId = (CHOOSE h \in f : TRUE).id,
                       !.fluxerWebhookToken = (CHOOSE h \in f : TRUE).id]

\* The update that writes both sides whatever the call needed.
RepairedBothSides(row, made, t) ==
    [row EXCEPT !.discordWebhookId = HookNames[t.call],
                !.discordWebhookToken = HookNames[t.call],
                !.fluxerWebhookId = HookNames[t.call],
                !.fluxerWebhookToken = HookNames[t.call]]

Repaired(row, made, t) == Updated(row, made)

\* repairBridgeWebhook from its createWebhook calls to its return.
RepairWrite(t, dok, fok) ==
    /\ t \in repairs
    /\ Cardinality(hooks) + 2 <= MaxHooks
    /\ LET made == Created(t, dok, fok)
       IN /\ hooks' = hooks \cup made
          /\ bridges' = IF t.bridgeId \in DOMAIN bridges
                        THEN [bridges EXCEPT ![t.bridgeId] = Repaired(@, made, t)]
                        ELSE bridges
    /\ repairs' = repairs \ {t}
    /\ startup' = IF startup.busy = t.call THEN [startup EXCEPT !.busy = 0] ELSE startup
    /\ UNCHANGED <<starts, normalized, usedIds, ops, opCount, workers, workerObjs, stopTasks,
                   lastCall, otherVars>>

\* repairAllBridgeWebhooks: the findMany.
RepairAllFind ==
    /\ startup.stage = "find"
    /\ startup' = [startup EXCEPT
                      !.stage = "repair",
                      !.todo = {b \in DOMAIN bridges :
                                   \/ bridges[b].discordWebhookId = NULL
                                   \/ bridges[b].discordWebhookToken = NULL}]
    /\ UNCHANGED <<hooks, repairs, starts, normalized, bridges, usedIds, ops, opCount, workers,
                   workerObjs, stopTasks, lastCall, otherVars>>

\* repairAllBridgeWebhooks: the for loop calls repairBridgeWebhook for the
\* next bridge once the call before has returned.
RepairAllNext(bridgeId) ==
    /\ startup.stage = "repair" /\ startup.busy = 0
    /\ bridgeId \in startup.todo
    /\ LET call == startup.calls + 1
           r == RepairRead(bridgeId, call)
       IN /\ repairs' = repairs \cup r.task
          /\ startup' = [startup EXCEPT !.calls = call,
                                        !.last = [bridgeId |-> bridgeId, noop |-> r.noop],
                                        !.todo = @ \ {bridgeId},
                                        !.busy = IF r.task = {} THEN 0 ELSE call]
    /\ UNCHANGED <<hooks, starts, normalized, bridges, usedIds, ops, opCount, workers,
                   workerObjs, stopTasks, lastCall, otherVars>>

\* The listeners that Janus.start registers.
OnBridgeCreated(bridge) ==
    IF bridge.isActive
    THEN /\ startForBridge(bridge.id, bridge.discordChannelId, bridge.fluxerChannelId)
         /\ CallEffect("startForBridge", bridge.id)
    ELSE UNCHANGED <<workers, workerObjs, stopTasks, lastCall>>

OnBridgeDeleted(bridgeId) ==
    /\ stopForBridge(bridgeId)
    /\ CallEffect("stopForBridge", bridgeId)

OnBridgeToggled(bridge) ==
    IF bridge.isActive
    THEN /\ startForBridge(bridge.id, bridge.discordChannelId, bridge.fluxerChannelId)
         /\ CallEffect("startForBridge", bridge.id)
    ELSE /\ stopForBridge(bridge.id)
         /\ CallEffect("stopForBridge", bridge.id)

Emit(o) ==
    /\ o \in ops
    /\ ops' = ops \ {o}
    /\ CASE o.kind = "bridge:created" -> OnBridgeCreated(o.row)
         [] o.kind = "bridge:deleted" -> OnBridgeDeleted(o.id)
         [] o.kind = "bridge:toggled" -> OnBridgeToggled(o.row)
    /\ UNCHANGED <<bridges, usedIds, opCount, procVars, otherVars>>

\* A closing worker has closed: its close() promise resolves and every
\* stopForBridge call awaiting it goes on.  Worker.close() waits for the
\* jobs the worker is processing.
WorkerClosed(w) ==
    /\ w \in DOMAIN workerObjs
    /\ workerObjs[w].state = "closing"
    /\ \A j \in DOMAIN jobs : ~(jobs[j].state = "active" /\ jobs[j].worker = w)
    /\ Settle(stopTasks, [workerObjs EXCEPT ![w].state = "closed"], workers)
    /\ UNCHANGED <<bridges, usedIds, ops, opCount, lastCall, procVars, otherVars>>

(***************************************************************************)
(* BullMQ workers.  A worker takes a job of the queue whose name equals    *)
(* the name it was built with; a delayed job can be taken once its time    *)
(* has come.  Workers run several jobs at once (concurrency 5 and 10).     *)
(***************************************************************************)
Takeable(j) ==
    \/ jobs[j].state = "waiting"
    \/ (jobs[j].state = "delayed" /\ jobs[j].runAt <= now)

Completed(js, j) ==
    [js EXCEPT ![j].state = "completed", ![j].pc = "done", ![j].worker = 0, ![j].pairs = {}]

\* The processor threw: BullMQ retries with exponential backoff until the
\* attempts of the queue are used up.
Failed(js, j, attempts, backoff) ==
    LET n == js[j].attemptsMade + 1
    IN IF n >= attempts
       THEN [js EXCEPT ![j].state = "failed", ![j].pc = "done", ![j].attemptsMade = n]
       ELSE [js EXCEPT ![j].state = "delayed", ![j].pc = "new", ![j].attemptsMade = n,
                       ![j].runAt = now + backoff * (2 ^ (n - 1))]

\* Bridges whose deleteBridge call has emitted bridge:deleted.
DeletedEmitted ==
    {b \in usedIds \ DOMAIN bridges :
        \A o \in ops : ~(o.kind = "bridge:deleted" /\ o.id = b)}

\* The circuit breakers of circuitBreaker.ts: getCircuitBreaker adds one on
\* its first call for a name.  No module calls getCircuitBreaker.
breakers == <<>>

isCircuitOpen(name) == name \in DOMAIN breakers /\ breakers[name].opened

\* A call of a client method by the worker of job j.  `breaker` names the
\* circuit breaker the call is fired through: the workers call the client
\* methods themselves.
Call(j, api) ==
    [job |-> j, api |-> api, breaker |-> NULL, late |-> (jobs[j].bridgePairId \in DeletedEmitted),
     mapped |-> (\E r \in messageMap : /\ r.pairId = jobs[j].bridgePairId
                                         /\ r.sourcePlatform = jobs[j].event.platform
                                         /\ r.sourceMsgId = jobs[j].event.messageId),
     refused |-> FALSE]

\* The call with the platform's answer: `done` is false when the platform
\* answered with an error.
Answered(j, api, done) == [Call(j, api) EXCEPT !.refused = ~done]

(***************************************************************************)
(* RouterWorker (router.ts).                                               *)
(***************************************************************************)
findBridgePairs(sourcePlatform, sourceChannelId) ==
    {bridges[b] : b \in {x \in DOMAIN bridges :
        /\ bridges[x].isActive
        /\ IF sourcePlatform = "discord"
           THEN bridges[x].discordChannelId = sourceChannelId
           ELSE bridges[x].fluxerChannelId = sourceChannelId}}

DeliveryJob(j, pair) ==
    LET event == jobs[j].event
        targetPlatform == IF event.platform = "discord" THEN "fluxer" ELSE "discord"
        targetChannelId == IF event.platform = "discord" THEN pair.fluxerChannelId
                                                         ELSE pair.discordChannelId
    IN [Job(getDeliveryQueue(targetPlatform, targetChannelId), event, pair.id,
            targetPlatform, targetChannelId,
            pair.discordWebhookId, pair.discordWebhookToken, j, jobs[j].checkedAt)
        EXCEPT !.late = (pair.id \in DeletedEmitted), !.seen = jobs[j].seen,
               !.targetGuildId = IF event.platform = "discord" THEN pair.fluxerGuildId
                                                               ELSE pair.discordGuildId]

RECURSIVE Dispatched(_, _, _)
\* The for loop of processJob: one deliveryQueue.add per bridge pair.
Dispatched(js, j, pairs) ==
    IF pairs = {} THEN js
    ELSE LET pair == CHOOSE x \in pairs : TRUE
         IN Dispatched(With(js, Cardinality(DOMAIN js) + 1, DeliveryJob(j, pair)),
                       j, pairs \ {pair})

\* processJob up to the answer of findBridgePairs.
RouterFind(j) ==
    /\ j \in DOMAIN jobs /\ jobs[j].queue = IngestQueueName /\ Takeable(j)
    /\ LET event == jobs[j].event
           pairs == findBridgePairs(event.platform, event.channelId)
       IN IF isLoopMessage(event.content, event.author)
          THEN /\ jobs' = Completed(jobs, j)
               /\ drops' = drops \cup {[msg |-> event.messageId, at |-> now]}
          ELSE /\ jobs' = IF pairs = {}
                          THEN Completed([jobs EXCEPT ![j].checkedAt = now,
                                                          ![j].seen = regs], j)
                          ELSE [jobs EXCEPT ![j].state = "active", ![j].pc = "found",
                                            ![j].pairs = pairs, ![j].checkedAt = now,
                                            ![j].seen = regs]
               /\ UNCHANGED drops
    /\ UNCHANGED <<now, hashes, rate, grants, checks, regs, tracker, msgs, gateway, pending,
                   messageMap, calls, userOps, mgrVars>>

\* processJob from there on: the bridge pairs are the ones it has read.
RouterDispatch(j) ==
    /\ j \in DOMAIN jobs /\ jobs[j].queue = IngestQueueName
    /\ jobs[j].state = "active" /\ jobs[j].pc = "found"
    /\ jobs' = Completed(Dispatched(jobs, j, jobs[j].pairs), j)
    /\ UNCHANGED <<now, kvVars, msgs, gateway, pending, messageMap, calls, userOps, mgrVars>>

\* processJob when a deliveryQueue.add throws (Redis refuses the command):
\* the jobs of the pairs in `sent` have been added, the ingest job fails and
\* BullMQ retries it.  findMany returns the pairs in no particular order.
RouterDispatchFails(j, sent) ==
    /\ j \in DOMAIN jobs /\ jobs[j].queue = IngestQueueName
    /\ jobs[j].state = "active" /\ jobs[j].pc = "found"
    /\ sent \subseteq jobs[j].pairs /\ sent # jobs[j].pairs
    /\ jobs' = [Failed(Dispatched(jobs, j, sent), j, INGEST_ATTEMPTS, INGEST_BACKOFF_SECONDS)
                EXCEPT ![j].pairs = {}]
    /\ UNCHANGED <<now, kvVars, msgs, gateway, pending, messageMap, calls, userOps, mgrVars>>

(***************************************************************************)
(* Delivery workers, common part.                                          *)
(***************************************************************************)
\* Worker w can take job j.
\* The jobs worker w is processing.
Processing(w) == {k \in DOMAIN jobs : jobs[k].state = "active" /\ jobs[k].worker = w}

\* A worker takes a job of its queue while it runs fewer than `concurrency`.
CanTake(w, j) ==
    /\ w \in DOMAIN workerObjs /\ workerObjs[w].state = "running"
    /\ j \in DOMAIN jobs /\ jobs[j].queue = workerObjs[w].queue /\ Takeable(j)
    /\ Cardinality(Processing(w)) < DELIVERY_CONCURRENCY

\* The rate-limited attempt handled as a thrown error.
RateLimitedAsFailure(js, j, platform) ==
    Failed(js, j, DELIVERY_ATTEMPTS, DELIVERY_BACKOFF_SECONDS)

\* job.moveToDelayed(Date.now() + delay) followed by return.  The job is no
\* longer active, so BullMQ's attempt to complete it afterwards is refused.
RateLimited(js, j, platform) ==
    [js EXCEPT ![j].state = "delayed", ![j].pc = "new", ![j].deniedAt = now,
               ![j].runAt = now + getRateLimitDelay(platform, js[j].targetChannelId)]

MapRows(j) ==
    {r \in messageMap : /\ r.pairId = jobs[j].bridgePairId
                          /\ r.sourcePlatform = jobs[j].event.platform
                          /\ r.sourceMsgId = jobs[j].event.messageId}

MapRow(j, destPlatform, destMsgId) ==
    [pairId |-> jobs[j].bridgePairId, sourcePlatform |-> jobs[j].event.platform,
     sourceMsgId |-> jobs[j].event.messageId, destPlatform |-> destPlatform,
     destMsgId |-> destMsgId, by |-> j]

\* Bridge hops behind the message a job carries.
DepthOf(j) ==
    IF jobs[j].event.messageId \in DOMAIN msgs THEN msgs[jobs[j].event.messageId].depth + 1
    ELSE 1

(***************************************************************************)
(* DiscordDeliveryWorker (discord-delivery.ts).  `ok` is the answer of the *)
(* Discord API to the call the job makes, if it makes one.                 *)
(***************************************************************************)
DiscordCreate(w, j, ok) ==
    LET d == jobs[j]
        m == Message("discord", d.targetChannelId, d.event.content, d.event.author,
                     TRUE, j, DepthOf(j))
    IN /\ calls' = calls \cup {Answered(j, "sendWebhook", ok)}
       /\ IF ok
          THEN /\ msgs' = With(msgs, FreshMsg, m)
               /\ gateway' = Emitted(gateway, "discord", GatewayEvent("create", FreshMsg, m))
               /\ jobs' = [jobs EXCEPT ![j].state = "active", ![j].pc = "sent",
                                       ![j].destMsgId = FreshMsg, ![j].worker = w]
          ELSE /\ jobs' = Completed(jobs, j)
               /\ UNCHANGED <<msgs, gateway>>
       /\ UNCHANGED messageMap

\* handleMessageUpdate without the return on a missing MessageMap row.
DiscordUpdateNoMapCheck(j, ok) ==
    /\ calls' = calls \cup {Call(j, "editWebhookMessage")}
    /\ jobs' = Completed(jobs, j)
    /\ UNCHANGED <<msgs, gateway, messageMap>>

DiscordUpdate(j, ok) ==
    IF MapRows(j) = {}
    THEN /\ jobs' = Completed(jobs, j)
         /\ UNCHANGED <<msgs, gateway, messageMap, calls>>
    ELSE \E r \in MapRows(j) :
         /\ calls' = calls \cup {Answered(j, "editWebhookMessage",
                 ok /\ r.destMsgId \in DOMAIN msgs /\ ~msgs[r.destMsgId].deleted)}
         /\ IF ok /\ r.destMsgId \in DOMAIN msgs /\ ~msgs[r.destMsgId].deleted
            THEN /\ msgs' = [msgs EXCEPT ![r.destMsgId].content = jobs[j].event.content]
                 /\ gateway' = Emitted(gateway, "discord",
                                       GatewayEvent("update", r.destMsgId, msgs'[r.destMsgId]))
            ELSE UNCHANGED <<msgs, gateway>>
         /\ jobs' = Completed(jobs, j)
         /\ UNCHANGED messageMap

DiscordDelete(j, ok) ==
    IF MapRows(j) = {}
    THEN /\ jobs' = Completed(jobs, j)
         /\ UNCHANGED <<msgs, gateway, messageMap, calls>>
    ELSE \E r \in MapRows(j) :
         /\ calls' = calls \cup {Answered(j, "deleteWebhookMessage",
                 ok /\ r.destMsgId \in DOMAIN msgs /\ ~msgs[r.destMsgId].deleted)}
         /\ IF ok /\ r.destMsgId \in DOMAIN msgs /\ ~msgs[r.destMsgId].deleted
            THEN /\ msgs' = [msgs EXCEPT ![r.destMsgId].deleted = TRUE]
                 /\ gateway' = Emitted(gateway, "discord",
                                       GatewayEvent("delete", r.destMsgId, msgs[r.destMsgId]))
                 /\ messageMap' = messageMap \ {r}
            ELSE UNCHANGED <<msgs, gateway, messageMap>>
         /\ jobs' = Completed(jobs, j)

\* processJob, up to the answer of the platform.
DiscordProcess(w, j, ok) ==
    /\ CanTake(w, j) /\ workerObjs[w].platform = "discord"
    /\ checkRateLimit("discord", jobs[j].targetChannelId)
    /\ IF ~RateAllowed("discord", jobs[j].targetChannelId)
       THEN /\ jobs' = RateLimited(jobs, j, "discord")
            /\ UNCHANGED <<msgs, gateway, messageMap, calls>>
       ELSE IF ~Truthy(jobs[j].discordWebhookId) \/ ~Truthy(jobs[j].discordWebhookToken)
       THEN /\ jobs' = Completed(jobs, j)
            /\ UNCHANGED <<msgs, gateway, messageMap, calls>>
       ELSE CASE jobs[j].event.type = "MSG_CREATE" -> DiscordCreate(w, j, ok)
              [] jobs[j].event.type = "MSG_UPDATE" -> DiscordUpdate(j, ok)
              [] jobs[j].event.type = "MSG_DELETE" -> DiscordDelete(j, ok)
    /\ UNCHANGED <<now, checks, hashes, regs, drops, tracker, pending, userOps, mgrVars>>

\* handleMessageCreate that stores no MessageMap row.
DiscordRecordNoRow(j) ==
    /\ j \in DOMAIN jobs /\ jobs[j].queue = DiscordDeliveryWorkerQueue
    /\ jobs[j].state = "active" /\ jobs[j].pc = "sent"
    /\ Registered(jobs[j].event.content, jobs[j].event.author)
    /\ jobs' = Completed(jobs, j)
    /\ UNCHANGED <<now, rate, grants, checks, drops, tracker, msgs, gateway, pending, calls,
                   userOps, mgrVars, messageMap>>

\* handleMessageCreate after sendWebhook gave an id: MessageMap row, then hash.
DiscordRecord(j) ==
    /\ j \in DOMAIN jobs /\ jobs[j].queue = DiscordDeliveryWorkerQueue
    /\ jobs[j].state = "active" /\ jobs[j].pc = "sent"
    /\ messageMap' = messageMap \cup {MapRow(j, "discord", jobs[j].destMsgId)}
    /\ Registered(jobs[j].event.content, jobs[j].event.author)
    /\ jobs' = Completed(jobs, j)
    /\ UNCHANGED <<now, rate, grants, checks, drops, tracker, msgs, gateway, pending, calls,
                   userOps, mgrVars>>

(***************************************************************************)
(* FluxerDeliveryWorker (fluxer-delivery.ts) with FluxerClient.sendWebhook. *)
(* `ok` is the answer of the Fluxer API to the call the job makes, `bot`   *)
(* the bot flag Fluxer puts on the author of a webhook message.            *)
(***************************************************************************)
IsBlank(content) == \A i \in 1..Len(content) : content[i] \in {" ", "\t", "\n"}

\* buildFluxerMessageUrl that ignores the guild id.
buildFluxerMessageUrlNoGuild(guildId, channelId, messageId) ==
    <<"https://fluxer.app", "/channels/", "@me", "/", channelId, "/", messageId>>

\* FLUXER_WEB_BASE_URL is taken unset: the base is 'https://fluxer.app'.
buildFluxerMessageUrl(guildId, channelId, messageId) ==
    LET guildSegment == IF guildId = NULL THEN "@me" ELSE guildId
    IN <<"https://fluxer.app", "/channels/", guildSegment, "/", channelId, "/", messageId>>

IsSpace(c) == c \in {" ", "\t", "\n"}

RECURSIVE trimEnd(_)
\* String.prototype.trimEnd
trimEnd(content) ==
    IF content # <<>> /\ IsSpace(content[Len(content)])
    THEN trimEnd(SubSeq(content, 1, Len(content) - 1))
    ELSE content

JumpLine(fluxerMessageUrl) ==
    <<"-# [Jump to original message](">> \o fluxerMessageUrl \o <<")">>

buildWebhookEditWorkaroundContent(content, fluxerMessageUrl) ==
    LET body == trimEnd(content)
    IN IF body # <<>> THEN body \o <<"\n">> \o JumpLine(fluxerMessageUrl)
       ELSE JumpLine(fluxerMessageUrl)

getEditUpdateTrackerKey(bridgePairId, sourcePlatform, sourceMsgId) ==
    <<"janus:fluxer:edit-update:", bridgePairId, ":", sourcePlatform, ":", sourceMsgId>>

\* What the job posts on Fluxer through the webhook.
WebhookContent(j) ==
    IF jobs[j].event.type = "MSG_UPDATE" THEN jobs[j].body ELSE jobs[j].event.content

\* FluxerClient.sendWebhook up to the answer of webhook.send: the pending
\* entry is registered first.  When webhook.send throws, sendWebhook returns
\* null at once, the entry stays until its timer fires, and the caller
\* registers the outgoing hash.
sendWebhook(w, j, content, ok, bot) ==
    LET d == jobs[j]
        m == Message("fluxer", d.targetChannelId, content, d.event.author, bot, j, DepthOf(j))
    IN /\ calls' = calls \cup {Answered(j, "sendWebhook", ok)}
       /\ pending' = Append(pending, [job |-> j, channelId |-> d.targetChannelId,
                                      content |-> content, username |-> d.event.author,
                                      deadline |-> now + CAPTURE_TIMEOUT_SECONDS])
       /\ IF ok
          THEN /\ msgs' = With(msgs, FreshMsg, m)
               /\ gateway' = Emitted(gateway, "fluxer", GatewayEvent("create", FreshMsg, m))
               /\ UNCHANGED <<hashes, regs>>
          ELSE /\ Registered(content, d.event.author)
               /\ UNCHANGED <<msgs, gateway>>

FluxerCreate(w, j, ok, bot) ==
    LET d == jobs[j]
        bridge == bridges[d.bridgePairId]
    IN IF IsBlank(d.event.content)
       THEN /\ jobs' = Completed(jobs, j)
            /\ UNCHANGED <<msgs, gateway, pending, messageMap, calls, hashes, regs>>
       ELSE IF Truthy(bridge.fluxerWebhookId) /\ Truthy(bridge.fluxerWebhookToken)
       THEN /\ sendWebhook(w, j, d.event.content, ok, bot)
            /\ jobs' = IF ok THEN [jobs EXCEPT ![j].state = "active", ![j].pc = "sent",
                                               ![j].worker = w]
                             ELSE Completed(jobs, j)
            /\ UNCHANGED messageMap
       ELSE \* sendMessage with masquerade; it throws when the platform refuses
            LET m == Message("fluxer", d.targetChannelId, d.event.content, d.event.author,
                             TRUE, j, DepthOf(j))
            IN /\ calls' = calls \cup {Answered(j, "sendMessage", ok)}
               /\ UNCHANGED pending
               /\ IF ok
                  THEN /\ msgs' = With(msgs, FreshMsg, m)
                       /\ gateway' = Emitted(gateway, "fluxer",
                                             GatewayEvent("create", FreshMsg, m))
                       /\ messageMap' = messageMap \cup {MapRow(j, "fluxer", FreshMsg)}
                       /\ Registered(d.event.content, d.event.author)
                       /\ jobs' = Completed(jobs, j)
                  ELSE /\ jobs' = Failed(jobs, j, DELIVERY_ATTEMPTS, DELIVERY_BACKOFF_SECONDS)
                       /\ UNCHANGED <<msgs, gateway, messageMap, hashes, regs>>

FluxerUpdate(w, j, ok, bot) ==
    LET d == jobs[j]
        bridge == bridges[d.bridgePairId]
    IN IF MapRows(j) = {}
       THEN /\ jobs' = Completed(jobs, j)
            /\ UNCHANGED <<msgs, gateway, pending, messageMap, calls, hashes, regs>>
       ELSE \E r \in MapRows(j) :
            IF Truthy(bridge.fluxerWebhookId) /\ Truthy(bridge.fluxerWebhookToken)
            THEN LET content == buildWebhookEditWorkaroundContent(d.event.content,
                                    buildFluxerMessageUrl(bridge.fluxerGuildId,
                                                          d.targetChannelId, r.destMsgId))
                 IN /\ sendWebhook(w, j, content, ok, bot)
                    /\ jobs' = IF ok
                               THEN [jobs EXCEPT ![j].state = "active", ![j].pc = "sent",
                                                 ![j].worker = w, ![j].orig = r.destMsgId,
                                                 ![j].body = content]
                               ELSE Completed(jobs, j)
                    /\ UNCHANGED messageMap
            ELSE /\ calls' = calls \cup {Answered(j, "editMessage",
                                                   ok /\ ~msgs[r.destMsgId].deleted)}
                 /\ IF ok /\ ~msgs[r.destMsgId].deleted
                    THEN /\ msgs' = [msgs EXCEPT ![r.destMsgId].content = d.event.content]
                         /\ gateway' = Emitted(gateway, "fluxer",
                                 GatewayEvent("update", r.destMsgId, msgs'[r.destMsgId]))
                         /\ jobs' = Completed(jobs, j)
                    ELSE /\ jobs' = Failed(jobs, j, DELIVERY_ATTEMPTS,
                                           DELIVERY_BACKOFF_SECONDS)
                         /\ UNCHANGED <<msgs, gateway>>
                 /\ UNCHANGED <<pending, messageMap, hashes, regs>>

\* The platform deletes message id (if it is still there) and tells the gateway.
Deleted(ms, id) ==
    IF id \in DOMAIN ms THEN [ms EXCEPT ![id].deleted = TRUE] ELSE ms

DeleteEmitted(gw, ms, id) ==
    IF id \in DOMAIN ms /\ ~ms[id].deleted
    THEN Emitted(gw, "fluxer", GatewayEvent("delete", id, ms[id]))
    ELSE gw

\* `okUpdate` is the answer to the delete of the tracked edit-update message
\* (an error is caught and logged), `ok` the answer to the delete of the
\* destination message (an error fails the job).
FluxerDelete(j, ok, okUpdate) ==
    IF MapRows(j) = {}
    THEN /\ jobs' = Completed(jobs, j)
         /\ UNCHANGED <<msgs, gateway, messageMap, calls, tracker>>
    ELSE \E r \in MapRows(j) :
         LET key == getEditUpdateTrackerKey(jobs[j].bridgePairId, jobs[j].event.platform,
                                            jobs[j].event.messageId)
             tracked == key \in DOMAIN tracker
             ms1 == IF tracked /\ okUpdate THEN Deleted(msgs, tracker[key].id) ELSE msgs
             gw1 == IF tracked /\ okUpdate THEN DeleteEmitted(gateway, msgs, tracker[key].id)
                    ELSE gateway
             \* a message that is gone cannot be deleted: 'unknown message'
             done == ok /\ r.destMsgId \in DOMAIN ms1 /\ ~ms1[r.destMsgId].deleted
         IN /\ calls' = calls \cup {Answered(j, "deleteMessage", done)}
            /\ tracker' = Without(tracker, key)
            /\ IF done
               THEN /\ msgs' = Deleted(ms1, r.destMsgId)
                    /\ gateway' = DeleteEmitted(gw1, ms1, r.destMsgId)
                    /\ messageMap' = messageMap \ {r}
                    /\ jobs' = Completed(jobs, j)
               ELSE /\ msgs' = ms1
                    /\ gateway' = gw1
                    /\ jobs' = Failed(jobs, j, DELIVERY_ATTEMPTS, DELIVERY_BACKOFF_SECONDS)
                    /\ UNCHANGED messageMap

\* processJob, up to the answer of the platform.
FluxerProcess(w, j, ok, okUpdate, bot) ==
    /\ CanTake(w, j) /\ workerObjs[w].platform = "fluxer"
    /\ checkRateLimit("fluxer", jobs[j].targetChannelId)
    /\ IF ~RateAllowed("fluxer", jobs[j].targetChannelId)
       THEN /\ jobs' = RateLimited(jobs, j, "fluxer")
            /\ UNCHANGED <<msgs, gateway, pending, messageMap, calls, hashes, regs, tracker>>
       ELSE IF jobs[j].bridgePairId \notin DOMAIN bridges
       THEN /\ jobs' = Completed(jobs, j)
            /\ UNCHANGED <<msgs, gateway, pending, messageMap, calls, hashes, regs, tracker>>
       ELSE CASE jobs[j].event.type = "MSG_CREATE" ->
                   FluxerCreate(w, j, ok, bot) /\ UNCHANGED tracker
              [] jobs[j].event.type = "MSG_UPDATE" ->
                   FluxerUpdate(w, j, ok, bot) /\ UNCHANGED tracker
              [] jobs[j].event.type = "MSG_DELETE" ->
                   FluxerDelete(j, ok, okUpdate) /\ UNCHANGED <<pending, hashes, regs>>
    /\ UNCHANGED <<now, checks, drops, userOps, mgrVars>>

\* The 5 s timer of a pending entry fires: the entry goes, the waiting
\* sendWebhook call gets null.
FluxerTimeout(i) ==
    /\ i \in 1..Len(pending) /\ pending[i].deadline <= now
    /\ pending' = RemoveAt(pending, i)
    /\ jobs' = Resolved(jobs, pending[i], 0)
    /\ UNCHANGED <<now, kvVars, msgs, gateway, messageMap, calls, userOps, mgrVars>>

\* The handler after sendWebhook has returned its message id or null.  `ok`
\* is the answer to the delete of the previous edit-update message, if one is
\* made (an error is caught and logged).
FluxerRecord(j, ok) ==
    /\ j \in DOMAIN jobs /\ jobs[j].state = "active" /\ jobs[j].pc = "resolved"
    /\ LET d == jobs[j]
           key == getEditUpdateTrackerKey(d.bridgePairId, d.event.platform, d.event.messageId)
           previous == IF key \in DOMAIN tracker THEN tracker[key].id ELSE 0
       IN /\ Registered(WebhookContent(j), d.event.author)
          /\ IF d.event.type = "MSG_CREATE"
             THEN /\ messageMap' = IF d.destMsgId # 0
                                    THEN messageMap \cup {MapRow(j, "fluxer", d.destMsgId)}
                                    ELSE messageMap
                  /\ UNCHANGED <<tracker, msgs, gateway, calls>>
             ELSE /\ UNCHANGED messageMap
                  /\ IF d.destMsgId = 0
                     THEN UNCHANGED <<tracker, msgs, gateway, calls>>
                     ELSE /\ tracker' = With(tracker, key,
                                              [id |-> d.destMsgId,
                                               exp |-> now + EDIT_UPDATE_TTL_SECONDS])
                          /\ IF previous # 0 /\ previous # d.destMsgId
                             THEN IF ok
                                  THEN /\ calls' = calls \cup {Call(j, "deleteMessage")}
                                       /\ msgs' = Deleted(msgs, previous)
                                       /\ gateway' = DeleteEmitted(gateway, msgs, previous)
                                  ELSE /\ calls' = calls \cup
                                            {Answered(j, "deleteMessage refused", FALSE)}
                                       /\ UNCHANGED <<msgs, gateway>>
                             ELSE UNCHANGED <<msgs, gateway, calls>>
    /\ jobs' = Completed(jobs, j)
    /\ UNCHANGED <<now, rate, grants, checks, drops, pending, userOps, mgrVars>>

(***************************************************************************)
(* Time.  Between two of the instants below nothing the program reads      *)
(* changes; the clock goes from one of them to the next.                   *)
(***************************************************************************)
Instants ==
    {60 * (timestampMinute(now) + 1)}
    \cup {hashes[k].exp : k \in DOMAIN hashes}
    \cup {rate[k].exp : k \in DOMAIN rate}
    \cup {pending[i].deadline : i \in 1..Len(pending)}
    \cup {jobs[j].runAt : j \in {x \in DOMAIN jobs : jobs[x].state = "delayed"}}

NextInstant == CHOOSE t \in Instants : t > now /\ \A u \in Instants : u > now => t <= u

Advance ==
    /\ NextInstant <= Horizon
    /\ Tick(NextInstant - now)

(***************************************************************************)
(* After Janus.start: the listeners are registered and loadActiveBridges   *)
(* has started a worker set for every active bridge.                       *)
(***************************************************************************)
Bridge1 == [id |-> "b1", discordChannelId |-> "d1", fluxerChannelId |-> "f1",
            discordWebhookId |-> "wh", discordWebhookToken |-> "wh",
            fluxerWebhookId |-> "wh", fluxerWebhookToken |-> "wh",
            discordGuildId |-> "dg1", fluxerGuildId |-> "g1", isActive |-> TRUE]

InitMgr ==
    /\ bridges = ("b1" :> Bridge1)
    /\ usedIds = {"b1"}
    /\ ops = {}
    /\ opCount = 0
    /\ LET n == NewWorkerSet(<<>>, "b1", "d1", "f1")
       IN workerObjs = n.objs /\ workers = ("b1" :> n.set)
    /\ stopTasks = {}
    /\ lastCall = NoCall
    /\ starts = 1 /\ normalized = {} /\ InitRepaired

NextMgr ==
    \/ \E d \in DiscordChannels, f \in FluxerChannels, dw \in WebhookResults,
          fw \in WebhookResults, a \in BOOLEAN : createBridge(d, f, dw, fw, a)
    \/ \E b \in BridgeIds, a \in BOOLEAN : toggleBridge(b, a)
    \/ \E b \in BridgeIds : deleteBridge(b)
    \/ \E o \in ops : Emit(o)
    \/ \E w \in DOMAIN workerObjs : WorkerClosed(w)

InitManager == InitMgr /\ InitKv /\ InitPipe /\ now = 0

SpecMgr == InitManager /\ [][NextMgr]_vars

InitIdle ==
    /\ bridges = <<>> /\ usedIds = {} /\ ops = {} /\ opCount = 0
    /\ workers = <<>> /\ workerObjs = <<>>
    /\ stopTasks = {} /\ lastCall = NoCall /\ starts = 1 /\ normalized = {} /\ InitRepaired

NextRate ==
    \/ \E p \in Platforms : \E c \in ChannelsOf(p) : RateProbe(p, c)
    \/ (now < MaxNow /\ Tick(1))

InitRate == InitIdle /\ InitKv /\ InitPipe /\ now = 0

SpecRate == InitRate /\ [][NextRate]_vars

(***************************************************************************)
(* The loop filter on its own: registerOutgoingHash is called with texts   *)
(* over a two-letter alphabet that holds the separator, at the instants    *)
(* the clock passes through.                                               *)
(***************************************************************************)
Chars == {"a", "|"}

Texts == UNION {[1..n -> Chars] : n \in 0..MaxLen}

HashCall(content, authorName) ==
    /\ Cardinality(regs) < MaxHashCalls
    /\ Registered(content, authorName)
    /\ UNCHANGED <<now, rate, grants, checks, drops, tracker, pipeVars, mgrVars>>

NextHash ==
    \/ \E content \in Texts, authorName \in Texts : HashCall(content, authorName)
    \/ Advance

InitHash == InitIdle /\ InitKv /\ InitPipe /\ now = Start

SpecHash == InitHash /\ [][NextHash]_vars

(***************************************************************************)
(* The Fluxer normalizer on its own (normalizer.ts): normalizeToCanonical  *)
(* is called with author ids and avatar values.  A string is a sequence    *)
(* over an alphabet in which the two URL schemes and the marker 'a_' are   *)
(* letters, so that startsWith is a test on the first letter.              *)
(***************************************************************************)
AvatarChars == {"http://", "https://", "a_", "c"}

\* null, among values that are sequences.
NoAvatar == <<NULL>>

AvatarValues == {NoAvatar} \cup UNION {[1..n -> AvatarChars] : n \in 0..MaxAvatarLen}

UserIds == {"u1", "u2"}

startsWith(s, prefix) == Len(s) >= 1 /\ s[1] = prefix

buildFluxerAvatarUrl(userId, avatarHash) ==
    IF avatarHash = NoAvatar \/ avatarHash = <<>> THEN NoAvatar
    ELSE IF startsWith(avatarHash, "http://") \/ startsWith(avatarHash, "https://")
    THEN avatarHash
    ELSE <<"https://cdn.fluxer.app/avatars/", userId, "/">> \o avatarHash \o <<".", "png">>

\* normalizeToCanonical, the author's avatar.
Normalize(userId, avatar) ==
    /\ Cardinality(normalized) < MaxNormalized
    /\ normalized' = normalized \cup {[userId |-> userId, avatar |-> avatar,
                                       result |-> buildFluxerAvatarUrl(userId, avatar)]}
    /\ UNCHANGED <<starts, repairVars, bridges, usedIds, ops, opCount, workers, workerObjs,
                   stopTasks,
                   lastCall, otherVars>>

NextNormalize == \E userId \in UserIds, avatar \in AvatarValues : Normalize(userId, avatar)

InitNormalize == InitIdle /\ InitKv /\ InitPipe /\ now = Start

SpecNormalize == InitNormalize /\ [][NextNormalize]_vars

(***************************************************************************)
(* The ingest side: users, gateways, router and bridge administration,     *)
(* from a start with empty queues.                                         *)
(***************************************************************************)
UserActs ==
    \/ \E p \in Platforms : \E c \in ChannelsOf(p), content \in Contents, a \in AuthorNames :
          UserPost(p, c, content, a)
    \/ \E id \in DOMAIN msgs, content \in Contents : UserEdit(id, content)
    \/ \E id \in DOMAIN msgs : UserDelete(id)

IngestSteps ==
    \/ DiscordGateway
    \/ FluxerGateway
    \/ \E j \in DOMAIN jobs : RouterFind(j)
    \/ \E j \in DOMAIN jobs : RouterDispatch(j)

NextRoute ==
    \/ UserActs
    \/ IngestSteps
    \/ \E b \in BridgeIds, a \in BOOLEAN : toggleBridge(b, a)
    \/ \E b \in BridgeIds : deleteBridge(b)
    \/ \E o \in ops : Emit(o)
    \/ \E w \in DOMAIN workerObjs : WorkerClosed(w)
    \/ Advance

InitRoute == InitMgr /\ InitKv /\ InitPipe /\ now = Start

SpecRoute == InitRoute /\ [][NextRoute]_vars

(***************************************************************************)
(* The delivery side.  The delivery workers are exercised on jobs that lie *)
(* in the queues they consume.  No code of the repository adds to those    *)
(* queues, so the jobs are part of the Redis contents the program starts   *)
(* with, as is a rate-limit key left by earlier calls.  The jobs carry     *)
(* events of two messages users have posted: message 1 in Discord channel  *)
(* d1 and message 2 in Fluxer channel f1.                                  *)
(***************************************************************************)
EventTypes == {"MSG_CREATE", "MSG_UPDATE", "MSG_DELETE"}

SeedEvent(type, platform) ==
    CanonicalEvent(type, platform,
                   IF platform = "discord" THEN "d1" ELSE "f1",
                   IF platform = "discord" THEN 1 ELSE 2,
                   IF type = "MSG_DELETE" THEN <<>>
                   ELSE IF type = "MSG_UPDATE" THEN <<"y">> ELSE <<"x">>,
                   IF type = "MSG_DELETE" THEN <<>> ELSE <<"u">>)

\* A job for bridge b1 as the router builds it, in the queue of b1's worker.
SeedJob(type, targetPlatform) ==
    IF targetPlatform = "fluxer"
    THEN [Job(FluxerDeliveryWorkerQueue("f1"), SeedEvent(type, "discord"), "b1",
              "fluxer", "f1", "wh", "wh", 0, -1) EXCEPT !.targetGuildId = "g1"]
    ELSE [Job(DiscordDeliveryWorkerQueue, SeedEvent(type, "fluxer"), "b1",
              "discord", "d1", "wh", "wh", 0, -1) EXCEPT !.targetGuildId = "dg1"]

SeedOrder == <<"MSG_CREATE", "MSG_UPDATE", "MSG_DELETE">>

RECURSIVE Seeded(_, _, _, _)
\* The jobs of the chosen types, in the order create, update, delete.
Seeded(js, types, targetPlatform, i) ==
    IF i > Len(SeedOrder) THEN js
    ELSE Seeded(IF SeedOrder[i] \in types
                THEN With(js, Cardinality(DOMAIN js) + 1, SeedJob(SeedOrder[i], targetPlatform))
                ELSE js,
                types, targetPlatform, i + 1)

SeedSets == {types \in SUBSET EventTypes : Cardinality(types) \in 1..MaxSeeds}

Seeds(target, types, limited) ==
    /\ jobs = Seeded(<<>>, types, target, 1)
    /\ rate = IF limited
              THEN RateKey(target, IF target = "discord" THEN "d1" ELSE "f1")
                     :> [count |-> PER_CHANNEL_LIMIT, exp |-> Start + 1]
              ELSE <<>>
    /\ msgs = (1 :> Message("discord", "d1", <<"x">>, <<"u">>, FALSE, 0, 0)
               @@ 2 :> Message("fluxer", "f1", <<"x">>, <<"u">>, FALSE, 0, 0))
    /\ hashes = <<>> /\ grants = <<>> /\ checks = 0 /\ regs = {} /\ drops = {}
    /\ tracker = <<>> /\ gateway = [p \in Platforms |-> <<>>]
    /\ pending = <<>> /\ messageMap = {} /\ calls = {} /\ userOps = 0
    /\ now = Start

InitDeliver ==
    /\ InitMgr
    /\ \E target \in Platforms, types \in SeedSets, limited \in BOOLEAN :
          Seeds(target, types, limited)

\* One create job lies in a worker's queue and users act meanwhile.
InitInbound ==
    /\ InitMgr
    /\ \E target \in Platforms, limited \in BOOLEAN : Seeds(target, {"MSG_CREATE"}, limited)

DiscordSteps ==
    \/ \E w \in DOMAIN workerObjs, j \in DOMAIN jobs, ok \in BOOLEAN : DiscordProcess(w, j, ok)
    \/ \E j \in DOMAIN jobs : DiscordRecord(j)

FluxerSteps ==
    \/ \E w \in DOMAIN workerObjs, j \in DOMAIN jobs, ok \in BOOLEAN, okUpdate \in BOOLEAN,
          bot \in BOOLEAN : FluxerProcess(w, j, ok, okUpdate, bot)
    \/ \E i \in 1..Len(pending) : FluxerTimeout(i)
    \/ \E j \in DOMAIN jobs, ok \in BOOLEAN : FluxerRecord(j, ok)

DeliverySteps == DiscordSteps \/ FluxerSteps

NextDeliver ==
    \/ IngestSteps
    \/ DeliverySteps
    \/ Advance

SpecDeliver == InitDeliver /\ [][NextDeliver]_vars

NextInbound ==
    \/ UserActs
    \/ IngestSteps
    \/ DeliverySteps
    \/ Advance

SpecInbound == InitInbound /\ [][NextInbound]_vars

(***************************************************************************)
(* Edits on Fluxer.  Message 1 of Discord channel d1 has been bridged to   *)
(* Fluxer as message 3 by job 1, and its MessageMap row is stored; the     *)
(* Fluxer worker's queue holds MSG_UPDATE jobs for message 1.  The bridge  *)
(* may lack a Fluxer guild id and Fluxer webhook credentials.              *)
(***************************************************************************)
EditContents == {<<"y">>, <<"y", " ">>, <<" ">>}

UpdateJob(content) ==
    [SeedJob("MSG_UPDATE", "fluxer") EXCEPT !.event.content = content]

CreatedJob ==
    [SeedJob("MSG_CREATE", "fluxer") EXCEPT !.state = "completed", !.pc = "done",
                                            !.destMsgId = 3]

InitEdit ==
    /\ \E guild \in {NULL, "g1"}, wh \in WebhookResults :
          bridges = ("b1" :> [Bridge1 EXCEPT !.fluxerGuildId = guild,
                                             !.fluxerWebhookId = wh,
                                             !.fluxerWebhookToken = wh])
    /\ usedIds = {"b1"} /\ ops = {} /\ opCount = 0
    /\ LET n == NewWorkerSet(<<>>, "b1", "d1", "f1")
       IN workerObjs = n.objs /\ workers = ("b1" :> n.set)
    /\ stopTasks = {} /\ lastCall = NoCall /\ starts = 1 /\ normalized = {} /\ InitRepaired
    /\ \E n \in 1..MaxUpdates : \E cs \in [1..n -> EditContents] :
          jobs = [i \in 1..(n + 1) |-> IF i = 1 THEN CreatedJob ELSE UpdateJob(cs[i - 1])]
    /\ msgs = (1 :> Message("discord", "d1", <<"x">>, <<"u">>, FALSE, 0, 0)
               @@ 2 :> Message("fluxer", "f1", <<"x">>, <<"u">>, FALSE, 0, 0)
               @@ 3 :> Message("fluxer", "f1", <<"x">>, <<"u">>, TRUE, 1, 1))
    /\ messageMap = {[pairId |-> "b1", sourcePlatform |-> "discord", sourceMsgId |-> 1,
                      destPlatform |-> "fluxer", destMsgId |-> 3, by |-> 1]}
    /\ hashes = <<>> /\ rate = <<>> /\ grants = <<>> /\ checks = 0 /\ regs = {}
    /\ drops = {} /\ tracker = <<>> /\ gateway = [p \in Platforms |-> <<>>]
    /\ pending = <<>> /\ calls = {} /\ userOps = 0
    /\ now = Start

NextEdit ==
    \/ FluxerSteps
    \/ FluxerGateway
    \/ Advance

SpecEdit == InitEdit /\ [][NextEdit]_vars

(***************************************************************************)
(* Toggling a bridge while delivery jobs are queued.  Bridge b2 joins      *)
(* Discord channel d2 to Fluxer channel f1; both bridges are active and    *)
(* have their worker sets, and the queue of b1's worker holds jobs that    *)
(* carry b1's id.                                                          *)
(***************************************************************************)
Bridge2 == [id |-> "b2", discordChannelId |-> "d2", fluxerChannelId |-> "f1",
            discordWebhookId |-> "wh", discordWebhookToken |-> "wh",
            fluxerWebhookId |-> "wh", fluxerWebhookToken |-> "wh",
            discordGuildId |-> "dg1", fluxerGuildId |-> "g1", isActive |-> TRUE]

InitToggle ==
    /\ bridges = ("b1" :> Bridge1 @@ "b2" :> Bridge2)
    /\ usedIds = {"b1", "b2"} /\ ops = {} /\ opCount = 0
    /\ LET n1 == NewWorkerSet(<<>>, "b1", "d1", "f1")
           n2 == NewWorkerSet(n1.objs, "b2", "d2", "f1")
       IN workerObjs = n2.objs /\ workers = ("b1" :> n1.set @@ "b2" :> n2.set)
    /\ stopTasks = {} /\ lastCall = NoCall /\ starts = 1 /\ normalized = {} /\ InitRepaired
    /\ \E target \in Platforms, limited \in BOOLEAN : Seeds(target, {"MSG_CREATE"}, limited)

NextToggle ==
    \/ \E b \in BridgeIds, a \in BOOLEAN : toggleBridge(b, a)
    \/ \E o \in ops : Emit(o)
    \/ \E w \in DOMAIN workerObjs : WorkerClosed(w)
    \/ DeliverySteps
    \/ FluxerGateway
    \/ Advance

SpecToggle == InitToggle /\ [][NextToggle]_vars

(***************************************************************************)
(* Order of delivery.  Two MSG_CREATE jobs for the same target channel lie *)
(* in the worker's queue, job 1 added before job 2 (BullMQ numbers jobs as *)
(* they are added); they carry the first and the second message a user     *)
(* posted in the source channel.  The rate-limit window of the target      *)
(* channel may be used up.                                                 *)
(***************************************************************************)
OrderJob(target, second) ==
    IF second
    THEN [SeedJob("MSG_CREATE", target) EXCEPT
             !.event.messageId = @ + 2, !.event.content = <<"y">>]
    ELSE SeedJob("MSG_CREATE", target)

InitOrder ==
    /\ InitMgr
    /\ \E target \in Platforms, limited \in BOOLEAN :
          /\ jobs = (1 :> OrderJob(target, FALSE) @@ 2 :> OrderJob(target, TRUE))
          /\ rate = IF limited
                    THEN RateKey(target, IF target = "discord" THEN "d1" ELSE "f1")
                           :> [count |-> PER_CHANNEL_LIMIT, exp |-> Start + 1]
                    ELSE <<>>
    /\ msgs = (1 :> Message("discord", "d1", <<"x">>, <<"u">>, FALSE, 0, 0)
               @@ 2 :> Message("fluxer", "f1", <<"x">>, <<"u">>, FALSE, 0, 0)
               @@ 3 :> Message("discord", "d1", <<"y">>, <<"u">>, FALSE, 0, 0)
               @@ 4 :> Message("fluxer", "f1", <<"y">>, <<"u">>, FALSE, 0, 0))
    /\ hashes = <<>> /\ grants = <<>> /\ checks = 0 /\ regs = {} /\ drops = {}
    /\ tracker = <<>> /\ gateway = [p \in Platforms |-> <<>>]
    /\ pending = <<>> /\ messageMap = {} /\ calls = {} /\ userOps = 0
    /\ now = Start

NextOrder ==
    \/ DeliverySteps
    \/ FluxerGateway
    \/ Advance

SpecOrder == InitOrder /\ [][NextOrder]_vars

(***************************************************************************)
(* Restart.  The process exits (a signal, an uncaught exception) and is    *)
(* started again.  What it held in memory is gone: the worker objects, the *)
(* pending bridge notifications, the Fluxer client's pending captures and  *)
(* the gateway events not yet handled.  Redis and the database keep their  *)
(* contents.  Janus.start builds the router worker and loadActiveBridges   *)
(* starts a worker set for every active bridge; a job the old process had  *)
(* taken is moved back to waiting by a worker of its queue once its lock   *)
(* has run out (BullMQ's stalled-job check).                               *)
(***************************************************************************)
ActiveBridges == {b \in DOMAIN bridges : bridges[b].isActive}

RECURSIVE LoadActive(_, _, _)
\* The for loop of loadActiveBridges on a fresh DeliveryWorkerManager.
LoadActive(bs, objs, wmap) ==
    IF bs = {} THEN [objs |-> objs, wmap |-> wmap]
    ELSE LET b == CHOOSE x \in bs : TRUE
             n == NewWorkerSet(objs, b, bridges[b].discordChannelId,
                               bridges[b].fluxerChannelId)
         IN LoadActive(bs \ {b}, n.objs, With(wmap, b, n.set))

\* The jobs as the workers of the new process find them.
Stalled(js, objs) ==
    [j \in DOMAIN js |->
        LET unfinished == js[j].state \notin {"completed", "failed"}
            consumed == \/ js[j].queue = IngestQueueName
                        \/ \E w \in DOMAIN objs : objs[w].queue = js[j].queue
        IN IF js[j].state = "active" /\ consumed
           THEN [js[j] EXCEPT !.state = "waiting", !.pc = "new", !.worker = 0,
                              !.pairs = {}, !.carried = TRUE]
           ELSE [js[j] EXCEPT !.carried = @ \/ unfinished]]

Restart ==
    /\ starts < MaxStarts
    /\ starts' = starts + 1
    /\ LET n == LoadActive(ActiveBridges, <<>>, <<>>)
       IN /\ workerObjs' = n.objs
          /\ workers' = n.wmap
          /\ jobs' = Stalled(jobs, n.objs)
    /\ ops' = {} /\ stopTasks' = {} /\ lastCall' = NoCall
    /\ pending' = <<>>
    /\ gateway' = [p \in Platforms |-> <<>>]
    /\ UNCHANGED <<bridges, usedIds, opCount, normalized, repairVars, now, kvVars, msgs,
                   messageMap, calls,
                   userOps>>

\* Message 2, posted in Fluxer channel f1, has passed the listener and its
\* event lies in the ingest queue; the queue of the Discord workers holds a
\* delivery job of bridge b1.
InitRestart ==
    /\ InitMgr
    /\ hashes = <<>> /\ rate = <<>> /\ grants = <<>> /\ checks = 0 /\ regs = {}
    /\ drops = {} /\ tracker = <<>> /\ gateway = [p \in Platforms |-> <<>>]
    /\ pending = <<>> /\ messageMap = {} /\ calls = {} /\ userOps = 0
    /\ now = Start
    /\ msgs = (1 :> Message("discord", "d1", <<"x">>, <<"u">>, FALSE, 0, 0)
               @@ 2 :> Message("fluxer", "f1", <<"x">>, <<"u">>, FALSE, 0, 0))
    /\ jobs = IngestAdd(1 :> SeedJob("MSG_CREATE", "discord"),
                        SeedEvent("MSG_CREATE", "fluxer"), -1)

NextRestart ==
    \/ \E j \in DOMAIN jobs : RouterFind(j)
    \/ \E j \in DOMAIN jobs : RouterDispatch(j)
    \/ DiscordSteps
    \/ DiscordGateway
    \/ Advance
    \/ Restart

\* The workers of a running process keep polling their queues.
FairRestart ==
    /\ \A j \in 1..MaxJobs : WF_vars(RouterFind(j)) /\ WF_vars(RouterDispatch(j))
    /\ WF_vars(DiscordSteps)
    /\ WF_vars(DiscordGateway)

SpecRestart == InitRestart /\ [][NextRestart]_vars /\ FairRestart

(***************************************************************************)
(* Edits and deletes of a bridged message that may be gone.  A message has *)
(* been bridged to the target channel as message 3 by job 1 and its        *)
(* MessageMap row is stored; message 3 may since have been deleted on the  *)
(* target platform by someone else, so that the platform answers every     *)
(* edit or delete of it with 'unknown message'.  The worker's queue holds  *)
(* a MSG_UPDATE job, a MSG_DELETE job or both for the source message.      *)
(***************************************************************************)
CreatedFor(target) ==
    [SeedJob("MSG_CREATE", target) EXCEPT !.state = "completed", !.pc = "done",
                                          !.destMsgId = 3]

InitGone ==
    /\ \E wh \in WebhookResults :
          bridges = ("b1" :> [Bridge1 EXCEPT !.fluxerWebhookId = wh,
                                             !.fluxerWebhookToken = wh])
    /\ usedIds = {"b1"} /\ ops = {} /\ opCount = 0
    /\ LET n == NewWorkerSet(<<>>, "b1", "d1", "f1")
       IN workerObjs = n.objs /\ workers = ("b1" :> n.set)
    /\ stopTasks = {} /\ lastCall = NoCall /\ starts = 1 /\ normalized = {} /\ InitRepaired
    /\ \E target \in Platforms, gone \in BOOLEAN,
          types \in (SUBSET {"MSG_UPDATE", "MSG_DELETE"}) \ {{}} :
          /\ jobs = Seeded(1 :> CreatedFor(target), types, target, 1)
          /\ msgs = (1 :> Message("discord", "d1", <<"x">>, <<"u">>, FALSE, 0, 0)
                     @@ 2 :> Message("fluxer", "f1", <<"x">>, <<"u">>, FALSE, 0, 0)
                     @@ 3 :> [Message(target, IF target = "discord" THEN "d1" ELSE "f1",
                                      <<"x">>, <<"u">>, TRUE, 1, 1)
                              EXCEPT !.deleted = gone])
          /\ messageMap = {[pairId |-> "b1",
                            sourcePlatform |-> IF target = "discord" THEN "fluxer"
                                                                     ELSE "discord",
                            sourceMsgId |-> IF target = "discord" THEN 2 ELSE 1,
                            destPlatform |-> target, destMsgId |-> 3, by |-> 1]}
    /\ hashes = <<>> /\ rate = <<>> /\ grants = <<>> /\ checks = 0 /\ regs = {}
    /\ drops = {} /\ tracker = <<>> /\ gateway = [p \in Platforms |-> <<>>]
    /\ pending = <<>> /\ calls = {} /\ userOps = 0
    /\ now = Start

NextGone ==
    \/ \E w \in DOMAIN workerObjs, j \in DOMAIN jobs, ok \in BOOLEAN : DiscordProcess(w, j, ok)
    \/ FluxerSteps
    \/ FluxerGateway
    \/ Advance

SpecGone == InitGone /\ [][NextGone]_vars

(***************************************************************************)
(* Fan-out.  Bridges b1 (d1 <-> f1) and b2 (d2 <-> f1), each active or     *)
(* not, and one event of message 1 (channel d1) or message 2 (channel f1)  *)
(* in the ingest queue.                                                    *)
(***************************************************************************)
InitFan ==
    /\ \E a1 \in BOOLEAN, a2 \in BOOLEAN :
          /\ bridges = ("b1" :> [Bridge1 EXCEPT !.isActive = a1]
                        @@ "b2" :> [Bridge2 EXCEPT !.isActive = a2])
          /\ LET n == LoadActive({b \in {"b1", "b2"} : (b = "b1" /\ a1) \/ (b = "b2" /\ a2)},
                                 <<>>, <<>>)
             IN workerObjs = n.objs /\ workers = n.wmap
    /\ usedIds = {"b1", "b2"} /\ ops = {} /\ opCount = 0
    /\ stopTasks = {} /\ lastCall = NoCall /\ starts = 1 /\ normalized = {} /\ InitRepaired
    /\ hashes = <<>> /\ rate = <<>> /\ grants = <<>> /\ checks = 0 /\ regs = {}
    /\ drops = {} /\ tracker = <<>> /\ gateway = [p \in Platforms |-> <<>>]
    /\ pending = <<>> /\ messageMap = {} /\ calls = {} /\ userOps = 0
    /\ now = Start
    /\ msgs = (1 :> Message("discord", "d1", <<"x">>, <<"u">>, FALSE, 0, 0)
               @@ 2 :> Message("fluxer", "f1", <<"x">>, <<"u">>, FALSE, 0, 0))
    /\ \E type \in EventTypes, platform \in Platforms :
          jobs = IngestAdd(<<>>, SeedEvent(type, platform), -1)

NextFan ==
    \/ \E j \in DOMAIN jobs : RouterFind(j)
    \/ \E j \in DOMAIN jobs : RouterDispatch(j)
    \/ \E j \in DOMAIN jobs : \E sent \in SUBSET jobs[j].pairs : RouterDispatchFails(j, sent)
    \/ Advance

SpecFan == InitFan /\ [][NextFan]_vars

(***************************************************************************)
(* Blank messages.  One MSG_CREATE job lies in the worker's queue; its     *)
(* content may be empty or white space and it may carry an attachment.     *)
(* The bridge may lack webhook credentials: the Fluxer ones are read from  *)
(* the row, the Discord ones were copied into the job by the router.       *)
(***************************************************************************)
BlankContents == {<<>>, <<" ">>, <<"x">>}

InitBlank ==
    /\ \E dwh \in WebhookResults, fwh \in WebhookResults :
          bridges = ("b1" :> [Bridge1 EXCEPT !.discordWebhookId = dwh,
                                             !.discordWebhookToken = dwh,
                                             !.fluxerWebhookId = fwh,
                                             !.fluxerWebhookToken = fwh])
    /\ usedIds = {"b1"} /\ ops = {} /\ opCount = 0
    /\ LET n == NewWorkerSet(<<>>, "b1", "d1", "f1")
       IN workerObjs = n.objs /\ workers = ("b1" :> n.set)
    /\ stopTasks = {} /\ lastCall = NoCall /\ starts = 1 /\ normalized = {} /\ InitRepaired
    /\ \E target \in Platforms, content \in BlankContents, n \in 0..1 :
          jobs = (1 :> [SeedJob("MSG_CREATE", target) EXCEPT
                           !.event.content = content,
                           !.event.attachments = n,
                           !.discordWebhookId = bridges["b1"].discordWebhookId,
                           !.discordWebhookToken = bridges["b1"].discordWebhookToken])
    /\ msgs = (1 :> Message("discord", "d1", <<"x">>, <<"u">>, FALSE, 0, 0)
               @@ 2 :> Message("fluxer", "f1", <<"x">>, <<"u">>, FALSE, 0, 0))
    /\ hashes = <<>> /\ rate = <<>> /\ grants = <<>> /\ checks = 0 /\ regs = {}
    /\ drops = {} /\ tracker = <<>> /\ gateway = [p \in Platforms |-> <<>>]
    /\ pending = <<>> /\ messageMap = {} /\ calls = {} /\ userOps = 0
    /\ now = Start

NextBlank ==
    \/ DeliverySteps
    \/ FluxerGateway
    \/ Advance

SpecBlank == InitBlank /\ [][NextBlank]_vars

(***************************************************************************)
(* Properties of the worker manager                                        *)
(***************************************************************************)

\* Every bridge event handler has run to completion: no notification is
\* pending, no stopForBridge is suspended at an await, no close is in flight.
Quiescent == ops = {} /\ stopTasks = {} /\
             \A w \in DOMAIN workerObjs : workerObjs[w].state # "closing"

\* C8: startForBridge on a bridge id that already has a worker set creates no
\* worker and leaves the worker map unchanged; stopForBridge on a bridge id
\* without a worker set closes no worker and leaves the worker map unchanged.
C8_StartStopIdempotent ==
    /\ (lastCall.op = "startForBridge" /\ lastCall.had) =>
          (lastCall.created = 0 /\ ~lastCall.changed)
    /\ (lastCall.op = "stopForBridge" /\ ~lastCall.had) =>
          (lastCall.closed = 0 /\ ~lastCall.changed)

\* C8 case: startForBridge has just been called for a bridge that had a set.
C8_Witness == lastCall.op = "startForBridge" /\ lastCall.had

\* C9: once all bridge event handlers have run to completion, a bridge that is
\* inactive or deleted has no worker set in the DeliveryWorkerManager.
C9_InactiveHasNoWorkerSet ==
    Quiescent => \A b \in BridgeIds :
        (b \notin DOMAIN bridges \/ ~bridges[b].isActive) => b \notin DOMAIN workers

RECURSIVE GrantsIn(_, _, _, _)
\* Calls for (platform, channelId) that returned true in seconds t .. t+w-1.
GrantsIn(platform, channelId, t, w) ==
    IF w = 0 THEN 0
    ELSE (IF <<platform, channelId, t>> \in DOMAIN grants
          THEN grants[<<platform, channelId, t>>] ELSE 0)
         + GrantsIn(platform, channelId, t + 1, w - 1)

\* C4: for each (platform, channelId), the calls of checkRateLimit that
\* returned true within any window of WINDOW_SECONDS seconds number at most
\* PER_CHANNEL_LIMIT, also when the window straddles the expiry of the key.
C4_WindowHoldsAtMostLimit ==
    \A p \in Platforms : \A c \in ChannelsOf(p) : \A t \in 0..now :
        GrantsIn(p, c, t, WINDOW_SECONDS) <= PER_CHANNEL_LIMIT

(***************************************************************************)
(* Properties of generateContentHash                                       *)
(***************************************************************************)
\* The arguments of the call r records: content, author name, minute bucket.
Triple(r) == <<r.content, r.authorName, timestampMinute(r.at)>>

\* C11: two calls of generateContentHash with the same content and author
\* name, made at instants in the same wall-clock minute, return equal hashes.
C11_SameMinuteSameHash ==
    \A r1 \in regs, r2 \in regs : Triple(r1) = Triple(r2) => r1.hash = r2.hash

\* C11 case: two calls with the same content and author name were made at
\* different instants of one minute.
C11_Witness ==
    \E r1 \in regs, r2 \in regs : Triple(r1) = Triple(r2) /\ r1.at # r2.at

\* C12: two calls of generateContentHash whose (content, authorName, minute
\* bucket) differ in any component return different hashes.
C12_DifferentTripleDifferentHash ==
    \A r1 \in regs, r2 \in regs : Triple(r1) # Triple(r2) => r1.hash # r2.hash

(***************************************************************************)
(* Properties of the pipeline                                              *)
(***************************************************************************)
DeliveryJobs == {j \in DOMAIN jobs : jobs[j].queue # IngestQueueName}

\* Delivery jobs the RouterWorker has enqueued.
Routed == {j \in DeliveryJobs : jobs[j].src # 0}

\* The worker that the manager runs for job j's bridge and target platform.
WorkerFor(j) ==
    IF jobs[j].targetPlatform = "discord" THEN workers[jobs[j].bridgePairId].discord
    ELSE workers[jobs[j].bridgePairId].fluxer

\* C1: a delivery job that the router has enqueued for a bridge lies in the
\* queue that the worker started for that bridge and target platform consumes:
\* the name the router writes to is the name the worker is bound to.
C1_RouterQueueIsWorkerQueue ==
    \A j \in Routed :
        jobs[j].bridgePairId \in DOMAIN workers =>
            workerObjs[WorkerFor(j)].queue = jobs[j].queue

\* C7: once deleteBridge(id) has emitted bridge:deleted, the router enqueues
\* no delivery job carrying that id and no worker makes an outbound call for
\* such a job.
C7_NothingAfterBridgeDeleted ==
    /\ \A j \in DeliveryJobs : ~jobs[j].late
    /\ \A c \in calls : ~c.late

\* Jobs that stem from a gateway event (not from the initial queue contents).
Ingested == {j \in DOMAIN jobs : jobs[j].src # 0}

\* Registration r covers the loop check that job j's event passed last: same
\* content and author name, check made after r and within the hash TTL.
Covers(r, j) ==
    /\ r \in jobs[j].seen
    /\ r.content = jobs[j].event.content
    /\ r.authorName = jobs[j].event.author
    /\ jobs[j].checkedAt < r.at + HASH_TTL_SECONDS

\* C2: an event with the content and author name of a registered outgoing
\* hash never passes a loop check made within the hash TTL after the
\* registration, at whatever instants the two happen.
C2_DroppedWithinTtl ==
    \A j \in Ingested : \A r \in regs : ~Covers(r, j)

\* What the loop filter does guarantee: such an event passes a check only if
\* the check is made in another wall-clock minute than the registration.
C2_DroppedWithinTtlSameMinute ==
    \A j \in Ingested : \A r \in regs :
        Covers(r, j) => timestampMinute(r.at) # timestampMinute(jobs[j].checkedAt)

\* Message id was posted by the bridge.
BridgePosted(id) == id \in DOMAIN msgs /\ msgs[id].by # 0

\* C3: no event of a message that the bridge itself posted becomes a job.
C3_NoJobFromBridgePost ==
    \A j \in Ingested : ~BridgePosted(jobs[j].event.messageId)

\* What the filters do guarantee: no event of a message that the bridge posted
\* on Discord becomes a job, and every message a job carries is at most one
\* bridge hop away from a user's message, so every chain of sends ends.
C3_NoJobFromDiscordBridgePost ==
    \A j \in Ingested :
        LET id == jobs[j].event.messageId
        IN /\ BridgePosted(id) => msgs[id].platform = "fluxer"
           /\ id \in DOMAIN msgs => msgs[id].depth <= 1

\* Job j is taken in this step and checkRateLimit returns false for it.
DeniedStep(j) ==
    /\ j \in DeliveryJobs /\ Takeable(j) /\ jobs'[j] # jobs[j]
    /\ ~RateAllowed(jobs[j].targetPlatform, jobs[j].targetChannelId)

\* C5: an attempt for which checkRateLimit returns false makes no platform
\* call and changes no MessageMap row, loop hash or message; it leaves the job
\* delayed until the counter key expires, with no attempt counted; and a
\* delayed job is not touched before its time has come.
C5_RateLimitedAttemptIsDelayed ==
    [][\A j \in DOMAIN jobs :
         /\ DeniedStep(j) =>
               /\ jobs'[j].state = "delayed"
               /\ jobs'[j].runAt = rate[RateKey(jobs[j].targetPlatform,
                                                 jobs[j].targetChannelId)].exp
               /\ jobs'[j].runAt > now
               /\ jobs'[j].attemptsMade = jobs[j].attemptsMade
               /\ UNCHANGED <<calls, messageMap, hashes, msgs, pending, tracker>>
         /\ (jobs[j].state = "delayed" /\ jobs'[j] # jobs[j]) => jobs[j].runAt <= now
      ]_vars

\* C5 case: a job was rate limited, waited, and was then processed.
C5_Witness ==
    \E j \in DeliveryJobs :
        /\ jobs[j].deniedAt >= 0 /\ jobs[j].state = "completed"
        /\ \E c \in calls : c.job = j

\* C6: an outbound call made for a MSG_UPDATE or MSG_DELETE job is made while
\* a MessageMap row for its (pairId, sourcePlatform, sourceMsgId) exists.
C6_NoCallWithoutMapRow ==
    \A c \in calls :
        jobs[c.job].event.type \in {"MSG_UPDATE", "MSG_DELETE"} => c.mapped

\* C6 case: an update or delete job without a MessageMap row has been
\* processed.
C6_Witness ==
    \E j \in DeliveryJobs :
        /\ jobs[j].event.type \in {"MSG_UPDATE", "MSG_DELETE"}
        /\ jobs[j].state = "completed"
        /\ MapRows(j) = {}
        /\ \A c \in calls : c.job # j

\* C10: every MessageMap row was stored by a MSG_CREATE delivery for its
\* source message, and its destMsgId is the message which that delivery's
\* send produced on the destination platform.
C10_MapRowNamesOwnSend ==
    \A r \in messageMap :
        /\ jobs[r.by].event.type = "MSG_CREATE"
        /\ jobs[r.by].event.messageId = r.sourceMsgId
        /\ r.destMsgId \in DOMAIN msgs
        /\ msgs[r.destMsgId].by = r.by
        /\ msgs[r.destMsgId].platform = r.destPlatform

\* Job j is a MSG_CREATE delivery whose webhook send has returned a message
\* id and whose handler returns in this step.
CreateReturns(j) ==
    /\ j \in DeliveryJobs /\ jobs[j].event.type = "MSG_CREATE"
    /\ jobs[j].state = "active" /\ jobs'[j].state = "completed"
    /\ jobs[j].destMsgId # 0

\* C13: when the handler of a MSG_CREATE job whose webhook send returned id d
\* returns, the webhook was called on the target channel with the event's
\* content and author name, the MessageMap row from the source message to
\* (target platform, d) exists, and the loop-filter key of (content, author
\* name) is set with the loop TTL.
C13_CreateSendsAndRecords ==
    [][\A j \in DOMAIN jobs : CreateReturns(j) =>
         /\ \E c \in calls : c.job = j /\ c.api = "sendWebhook"
         /\ \E id \in DOMAIN msgs :
               /\ msgs[id].by = j
               /\ msgs[id].platform = jobs[j].targetPlatform
               /\ msgs[id].channelId = jobs[j].targetChannelId
               /\ msgs[id].content = jobs[j].event.content
               /\ msgs[id].author = jobs[j].event.author
         /\ \E r \in messageMap' :
               /\ r.pairId = jobs[j].bridgePairId
               /\ r.sourcePlatform = jobs[j].event.platform
               /\ r.sourceMsgId = jobs[j].event.messageId
               /\ r.destPlatform = jobs[j].targetPlatform
               /\ r.destMsgId = jobs[j].destMsgId
         /\ LET h == generateContentHash(jobs[j].event.content, jobs[j].event.author, now)
            IN h \in DOMAIN hashes' /\ hashes'[h].exp = now + HASH_TTL_SECONDS
      ]_vars

\* C13 case: MSG_CREATE jobs have been delivered through the webhook of either
\* platform and recorded.
C13_Witness ==
    \E r \in messageMap :
        /\ jobs[r.by].state = "completed" /\ jobs[r.by].destMsgId = r.destMsgId
        /\ jobs[r.by].event.content # <<>>

\* Job j is a MSG_DELETE delivery of a source message that has a MessageMap
\* row, and it completes in this step.
DeleteCompletes(j) ==
    /\ j \in DeliveryJobs /\ jobs[j].event.type = "MSG_DELETE"
    /\ MapRows(j) # {}
    /\ jobs[j].state # "completed" /\ jobs'[j].state = "completed"

\* C14: when a MSG_DELETE job for a source message with a MessageMap row
\* completes, the destination message is deleted, the tracked edit-update
\* message (if there is a tracker key) is deleted, the tracker key is absent
\* and the MessageMap row is absent.
C14_DeleteRemovesEverything ==
    [][\A j \in DOMAIN jobs : DeleteCompletes(j) =>
         LET key == getEditUpdateTrackerKey(jobs[j].bridgePairId, jobs[j].event.platform,
                                            jobs[j].event.messageId)
         IN /\ \A r \in MapRows(j) :
                  /\ r \notin messageMap'
                  /\ r.destMsgId \in DOMAIN msgs => msgs'[r.destMsgId].deleted
            /\ key \notin DOMAIN tracker'
            /\ (key \in DOMAIN tracker /\ tracker[key].id \in DOMAIN msgs) =>
                  msgs'[tracker[key].id].deleted
      ]_vars

\* A Fluxer worker takes MSG_UPDATE job j in this step, the rate limit
\* allows it, and the source message has a MessageMap row.
UpdateTaken(j) ==
    /\ j \in DeliveryJobs /\ jobs[j].event.type = "MSG_UPDATE"
    /\ jobs[j].targetPlatform = "fluxer"
    /\ Takeable(j) /\ jobs'[j] # jobs[j]
    /\ RateAllowed("fluxer", jobs[j].targetChannelId)
    /\ jobs[j].bridgePairId \in DOMAIN bridges
    /\ MapRows(j) # {}

\* The jump link to message id of job j's target channel.
JumpLinkTo(j, id) ==
    LET guild == bridges[jobs[j].bridgePairId].fluxerGuildId
    IN <<"-# [Jump to original message](", "https://fluxer.app", "/channels/",
         IF guild = NULL THEN "@me" ELSE guild, "/", jobs[j].targetChannelId, "/", id, ")">>

\* MSG_UPDATE job j stores the id its webhook send returned, in this step.
UpdateStores(j) ==
    /\ j \in DeliveryJobs /\ jobs[j].event.type = "MSG_UPDATE"
    /\ jobs[j].state = "active" /\ jobs'[j].state = "completed"
    /\ jobs[j].destMsgId # 0

\* The stored edit-update key of job j holds the id with a TTL of 7 days or more.
Tracked(j) ==
    LET key == getEditUpdateTrackerKey(jobs[j].bridgePairId, jobs[j].event.platform,
                                       jobs[j].event.messageId)
    IN /\ key \in DOMAIN tracker'
       /\ tracker'[key].id = jobs[j].destMsgId
       /\ tracker'[key].exp >= now + 7 * 24 * 3600

UpdateJobs == {j \in DeliveryJobs : jobs[j].event.type = "MSG_UPDATE"}

UpdateMessages == {id \in DOMAIN msgs : msgs[id].by \in UpdateJobs /\ ~msgs[id].deleted}

\* Every MSG_UPDATE delivery is over and no delete call was refused.
UpdatesDone ==
    /\ \A j \in UpdateJobs : jobs[j].state \in {"completed", "failed"}
    /\ \A c \in calls : c.api # "deleteMessage refused"

\* C16: after the MSG_UPDATE deliveries for one source message, with every
\* delete call succeeding, at most one edit-update message is left on the
\* target channel and the edit-update key holds the id of that message.
C16_OneTrackedUpdateMessage ==
    UpdatesDone =>
        /\ Cardinality(UpdateMessages) <= 1
        /\ \A id \in UpdateMessages :
              \E j \in UpdateJobs :
                 LET key == getEditUpdateTrackerKey(jobs[j].bridgePairId,
                                                    jobs[j].event.platform,
                                                    jobs[j].event.messageId)
                 IN key \in DOMAIN tracker /\ tracker[key].id = id

(***************************************************************************)
(* Properties of toggling                                                  *)
(***************************************************************************)

\* Bridge b has been toggled inactive and its bridge:toggled listener has run
\* to the end: the worker set is closed and removed from the manager's map.
Stopped(b) ==
    /\ b \in DOMAIN bridges /\ ~bridges[b].isActive
    /\ \A o \in ops : o.id # b
    /\ b \notin DOMAIN workers
    /\ \A t \in stopTasks : t.bridgeId # b

\* C17: while a bridge is inactive and its worker set is stopped, the queued
\* delivery jobs that carry its id stay queued as they are: none is taken
\* and none makes an outbound call, whatever other bridges are active.
C17_InactiveBridgeJobsStayQueued ==
    [][\A j \in DeliveryJobs :
          (Stopped(jobs[j].bridgePairId) /\ jobs[j].state \in {"waiting", "delayed"})
              => /\ jobs'[j] = jobs[j]
                 /\ \A c \in calls' \ calls : c.job # j]_vars

(***************************************************************************)
(* Properties of the delivery order                                        *)
(***************************************************************************)

\* Job a was added before job b to the queue of the same target channel.
Before(a, b) ==
    /\ a < b
    /\ jobs[a].queue = jobs[b].queue
    /\ jobs[a].targetPlatform = jobs[b].targetPlatform
    /\ jobs[a].targetChannelId = jobs[b].targetChannelId

\* C18: once a job has been rescheduled because of the rate limit, no job
\* added after it for the same target channel makes its outbound call
\* before the rescheduled job has made its own.
C18_RescheduledJobKeepsItsTurn ==
    [][\A a \in DeliveryJobs, b \in DeliveryJobs :
          (Before(a, b) /\ jobs[a].deniedAt >= 0 /\ \A c \in calls' : c.job # a)
              => \A c \in calls' \ calls : c.job # b]_vars

(***************************************************************************)
(* Properties of a restart                                                 *)
(***************************************************************************)

\* Job j was in a queue, unfinished, when the process was restarted.
Carried(j) == j \in DOMAIN jobs /\ jobs[j].carried

Processed(j) == j \in DOMAIN jobs /\ jobs[j].state \in {"completed", "failed"}

\* C19: an ingest or delivery job that was in its queue and unfinished when
\* the process stopped is processed to its end after the restart.
C19_CarriedJobsAreProcessed ==
    \A j \in 1..MaxJobs : Carried(j) ~> Processed(j)

(***************************************************************************)
(* Properties of the Fluxer normalizer                                     *)
(***************************************************************************)

\* C20: the normalizer leaves a null avatar null and an http(s) URL as it
\* is, and turns an avatar hash into
\* https://fluxerusercontent.com/avatars/<userId>/<hash>.<ext>, where ext is
\* gif for a hash that starts with 'a_' and png otherwise.
C20_AvatarIsResolved ==
    \A r \in normalized :
        IF r.avatar = NoAvatar THEN r.result = NoAvatar
        ELSE IF startsWith(r.avatar, "http://") \/ startsWith(r.avatar, "https://")
        THEN r.result = r.avatar
        ELSE r.avatar # <<>> =>
             r.result = <<"https://fluxerusercontent.com/avatars/", r.userId, "/">>
                        \o r.avatar
                        \o <<".", IF startsWith(r.avatar, "a_") THEN "gif" ELSE "png">>

(***************************************************************************)
(* Properties of failing platform calls                                    *)
(***************************************************************************)

\* The attempt of job j that this step ends is a failure: BullMQ counts it
\* and either schedules the retry or, the attempts used up, fails the job.
FailedStep(j) ==
    /\ jobs'[j].attemptsMade = jobs[j].attemptsMade + 1
    /\ jobs'[j].state \in {"delayed", "failed"}

\* C21: an outbound platform call that the platform answers with an error
\* ends the attempt of its delivery job as a failure; the job is not marked
\* completed.
C21_RefusedCallFailsTheJob ==
    [][\A c \in calls' \ calls : c.refused => FailedStep(c.job)]_vars

\* The destination message of job j's MessageMap row is gone: the platform
\* refuses every edit or delete of it for good.
Gone(j) == \E r \in MapRows(j) : msgs[r.destMsgId].deleted

\* C22: when the platform refuses the edit or delete of a mapped message for
\* good, the step removes the MessageMap row of the source message and marks
\* the job completed.
C22_PermanentRefusalDropsRow ==
    [][\A c \in calls' \ calls :
          (c.refused /\ Gone(c.job)
             /\ c.api \in {"editWebhookMessage", "deleteWebhookMessage",
                            "editMessage", "deleteMessage"})
              => /\ jobs'[c.job].state = "completed"
                 /\ \A r \in MapRows(c.job) : r \notin messageMap']_vars

(***************************************************************************)
(* Properties of the fan-out                                               *)
(***************************************************************************)

\* Bridge b is active and joins the channel the event of ingest job i is from.
Joins(b, i) ==
    /\ bridges[b].isActive
    /\ IF jobs[i].event.platform = "discord"
       THEN bridges[b].discordChannelId = jobs[i].event.channelId
       ELSE bridges[b].fluxerChannelId = jobs[i].event.channelId

\* The delivery jobs the router has added for ingest job i and bridge b.
FannedOut(i, b) == {j \in DeliveryJobs : jobs[j].src = i /\ jobs[j].bridgePairId = b}

\* Job j targets the counterpart of the event's platform in bridge b.
Counterpart(j, b) ==
    IF jobs[j].event.platform = "discord"
    THEN /\ jobs[j].targetPlatform = "fluxer"
         /\ jobs[j].targetChannelId = bridges[b].fluxerChannelId
         /\ jobs[j].targetGuildId = bridges[b].fluxerGuildId
    ELSE /\ jobs[j].targetPlatform = "discord"
         /\ jobs[j].targetChannelId = bridges[b].discordChannelId
         /\ jobs[j].targetGuildId = bridges[b].discordGuildId

\* C23: for an ingest event that passed the loop check, the router adds one
\* delivery job for each active bridge that joins the source channel, with
\* the bridge's counterpart platform, channel and guild, and none for any
\* other bridge; never more than one, retries included.
C23_OneJobPerJoiningBridge ==
    \A i \in {x \in DOMAIN jobs : jobs[x].queue = IngestQueueName} : \A b \in DOMAIN bridges :
        /\ \A j \in FannedOut(i, b) : Counterpart(j, b)
        /\ Cardinality(FannedOut(i, b)) <= (IF Joins(b, i) THEN 1 ELSE 0)
        /\ (jobs[i].state = "completed" /\ Joins(b, i)) => FannedOut(i, b) # {}

(***************************************************************************)
(* Properties of blank messages                                            *)
(***************************************************************************)

\* C24: a MSG_CREATE job with blank content and no attachment makes no
\* outbound call and stores no MessageMap row, on either platform; one with
\* blank content and an attachment is not dropped: once it has completed it
\* has made its call.
C24_BlankDroppedUnlessAttachment ==
    \A j \in DeliveryJobs :
        (jobs[j].event.type = "MSG_CREATE" /\ IsBlank(jobs[j].event.content)) =>
            IF jobs[j].event.attachments = 0
            THEN /\ \A c \in calls : c.job # j
                 /\ \A r \in messageMap : r.by # j
            ELSE jobs[j].state = "completed" => \E c \in calls : c.job = j

(***************************************************************************)
(* Properties of the fallback send                                         *)
(***************************************************************************)

\* The bridge of job j has no webhook credentials on the job's target side.
NoTargetWebhook(j) ==
    IF jobs[j].targetPlatform = "discord"
    THEN ~Truthy(jobs[j].discordWebhookId) \/ ~Truthy(jobs[j].discordWebhookToken)
    ELSE \/ ~Truthy(bridges[jobs[j].bridgePairId].fluxerWebhookId)
         \/ ~Truthy(bridges[jobs[j].bridgePairId].fluxerWebhookToken)

\* C25: a MSG_CREATE job with content whose bridge lacks the target-side
\* webhook credentials is delivered by a platform-native send under the
\* author's name, on either platform, and a MessageMap row is stored only
\* for a message that send has posted.
C25_FallbackSendWithoutWebhook ==
    \A j \in DeliveryJobs :
        (/\ jobs[j].event.type = "MSG_CREATE" /\ ~IsBlank(jobs[j].event.content)
         /\ NoTargetWebhook(j))
        => /\ jobs[j].state = "completed" =>
                 \E c \in calls : c.job = j /\ c.api = "sendMessage"
           /\ \A r \in messageMap :
                 r.by = j => /\ r.destMsgId \in DOMAIN msgs
                             /\ msgs[r.destMsgId].by = j
                             /\ msgs[r.destMsgId].author = jobs[j].event.author

(***************************************************************************)
(* Startup with webhook repair.  Janus.start has connected the clients and *)
(* built the router worker; repairAllBridgeWebhooks and loadActiveBridges  *)
(* are still to run.  Bridge b1 may lack the webhook credentials of either *)
(* side or of both, bridge b2 those of Discord, and b1's row may have been *)
(* deleted.  One MSG_CREATE job of b1, dispatched by the process before,   *)
(* waits in its delivery queue with the Discord credentials the router     *)
(* copied from the row at that time.                                       *)
(***************************************************************************)
\* Janus.start after the repair: loadActiveBridges.
StartupLoad ==
    /\ startup.stage = "repair" /\ startup.busy = 0 /\ startup.todo = {}
    /\ startup' = [startup EXCEPT !.stage = "run"]
    /\ LET n == LoadActive(ActiveBridges, <<>>, <<>>)
       IN workerObjs' = n.objs /\ workers' = n.wmap
    /\ UNCHANGED <<hooks, repairs, starts, normalized, bridges, usedIds, ops, opCount,
                   stopTasks, lastCall, otherVars>>

InitRepair ==
    /\ \E dwh \in WebhookResults, fwh \in WebhookResults, ewh \in WebhookResults,
          gone \in BOOLEAN :
          LET row1 == [Bridge1 EXCEPT !.discordWebhookId = dwh, !.discordWebhookToken = dwh,
                                      !.fluxerWebhookId = fwh, !.fluxerWebhookToken = fwh]
              row2 == [Bridge2 EXCEPT !.discordWebhookId = ewh, !.discordWebhookToken = ewh]
          IN /\ bridges = IF gone THEN ("b2" :> row2) ELSE ("b1" :> row1 @@ "b2" :> row2)
             /\ \E target \in Platforms :
                   jobs = (1 :> [SeedJob("MSG_CREATE", target) EXCEPT
                                    !.discordWebhookId = dwh,
                                    !.discordWebhookToken = dwh])
    /\ usedIds = {"b1", "b2"} /\ ops = {} /\ opCount = 0
    /\ workerObjs = <<>> /\ workers = <<>>
    /\ stopTasks = {} /\ lastCall = NoCall /\ starts = 1 /\ normalized = {}
    /\ hooks = {} /\ repairs = {}
    /\ startup = [Started EXCEPT !.stage = "find"]
    /\ msgs = (1 :> Message("discord", "d1", <<"x">>, <<"u">>, FALSE, 0, 0)
               @@ 2 :> Message("fluxer", "f1", <<"x">>, <<"u">>, FALSE, 0, 0))
    /\ hashes = <<>> /\ rate = <<>> /\ grants = <<>> /\ checks = 0 /\ regs = {}
    /\ drops = {} /\ tracker = <<>> /\ gateway = [p \in Platforms |-> <<>>]
    /\ pending = <<>> /\ messageMap = {} /\ calls = {} /\ userOps = 0
    /\ now = Start

NextRepair ==
    \/ RepairAllFind
    \/ \E b \in DOMAIN bridges : RepairAllNext(b)
    \/ \E t \in repairs, dok \in BOOLEAN, fok \in BOOLEAN : RepairWrite(t, dok, fok)
    \/ StartupLoad
    \/ \E b \in usedIds : RepairCommand(b)
    \/ DeliverySteps
    \/ FluxerGateway
    \/ Advance

SpecRepair == InitRepair /\ [][NextRepair]_vars

(***************************************************************************)
(* Properties of the credentials a delivery uses                           *)
(***************************************************************************)

\* A worker runs processJob on job j in this step, past the rate limiter.
HandledNow(j) ==
    /\ jobs[j].pc = "new"
    /\ \/ jobs'[j].pc # "new"
       \/ jobs'[j].attemptsMade > jobs[j].attemptsMade

\* The BridgePair row of job j holds webhook credentials for the job's target.
RowHasTargetWebhook(j) ==
    /\ jobs[j].bridgePairId \in DOMAIN bridges
    /\ IF jobs[j].targetPlatform = "discord"
       THEN ~needsDiscordWebhook(bridges[jobs[j].bridgePairId])
       ELSE ~needsFluxerWebhook(bridges[jobs[j].bridgePairId])

\* C26: the delivery worker uses the webhook credentials that the BridgePair
\* row holds when the job is processed: a MSG_CREATE job whose row has the
\* target-side credentials at that time (also when they were missing at
\* dispatch and repaired since) is sent through the webhook, and a job whose
\* row no longer exists makes no outbound call.
C26_RowCredentialsAtProcessing ==
    [][\A j \in DeliveryJobs :
          HandledNow(j) =>
             /\ (jobs[j].event.type = "MSG_CREATE" /\ RowHasTargetWebhook(j))
                   => \E c \in calls' : c.job = j /\ c.api = "sendWebhook"
             /\ jobs[j].bridgePairId \notin DOMAIN bridges
                   => \A c \in calls' \ calls : c.job # j]_vars

(***************************************************************************)
(* A slow channel.  Bridges b1 (d1 <-> f1) and b2 (d2 <-> f1) are active   *)
(* and have their worker sets.  Users have posted messages 1..11 in f1.    *)
(* The Discord queue holds a job for d1 for each of messages 1..10 and a   *)
(* job for d2 for message 11.  Discord channel d1 is slow: the jobs for    *)
(* messages 1..9 were taken in earlier rate-limit windows, their webhook   *)
(* messages 12..20 are posted and the jobs have not returned yet.          *)
(***************************************************************************)
NoisyJobs == 2 * DELIVERY_CONCURRENCY

NoisyJob(j) ==
    LET e == [SeedEvent("MSG_CREATE", "fluxer") EXCEPT !.messageId = j]
        x == [SeedJob("MSG_CREATE", "discord") EXCEPT !.event = e]
    IN IF j > NoisyJobs
       THEN [x EXCEPT !.bridgePairId = "b2", !.targetChannelId = "d2"]
       ELSE IF j = NoisyJobs THEN x
       ELSE [x EXCEPT !.state = "active", !.pc = "sent", !.destMsgId = NoisyJobs + 1 + j,
                      !.worker = IF j <= DELIVERY_CONCURRENCY THEN 1 ELSE 3]

InitNoisy ==
    /\ bridges = ("b1" :> Bridge1 @@ "b2" :> Bridge2)
    /\ usedIds = {"b1", "b2"} /\ ops = {} /\ opCount = 0
    /\ LET n1 == NewWorkerSet(<<>>, "b1", "d1", "f1")
           n2 == NewWorkerSet(n1.objs, "b2", "d2", "f1")
       IN workerObjs = n2.objs /\ workers = ("b1" :> n1.set @@ "b2" :> n2.set)
    /\ stopTasks = {} /\ lastCall = NoCall /\ starts = 1 /\ normalized = {} /\ InitRepaired
    /\ jobs = [j \in 1..(NoisyJobs + 1) |-> NoisyJob(j)]
    /\ msgs = [m \in 1..(2 * NoisyJobs) |->
                  IF m <= NoisyJobs + 1
                  THEN Message("fluxer", "f1", <<"x">>, <<"u">>, FALSE, 0, 0)
                  ELSE Message("discord", "d1", <<"x">>, <<"u">>, TRUE,
                               m - NoisyJobs - 1, 1)]
    /\ hashes = <<>> /\ rate = <<>> /\ grants = <<>> /\ checks = 0 /\ regs = {}
    /\ drops = {} /\ tracker = <<>> /\ gateway = [p \in Platforms |-> <<>>]
    /\ pending = <<>> /\ messageMap = {} /\ calls = {} /\ userOps = 0
    /\ now = Start

\* The clock stands still: everything happens within one rate-limit window.
NextNoisy == DiscordSteps

SpecNoisy == InitNoisy /\ [][NextNoisy]_vars

(***************************************************************************)
(* Properties of the isolation between target channels                     *)
(***************************************************************************)

\* The workers that consume the queue of job j.
Consumers(j) ==
    {w \in DOMAIN workerObjs :
        workerObjs[w].state = "running" /\ workerObjs[w].queue = jobs[j].queue}

\* Job j is ready, its queue has a worker, and no worker can take it.
Blocked(j) ==
    /\ Takeable(j) /\ Consumers(j) # {}
    /\ \A w \in Consumers(j) : ~CanTake(w, j)

SameTarget(j, k) ==
    /\ jobs[j].targetPlatform = jobs[k].targetPlatform
    /\ jobs[j].targetChannelId = jobs[k].targetChannelId

\* C27: a delivery job is held back only by its own target channel: a job
\* no worker can take waits behind jobs for the same (platform, channel)
\* only, and a job the rate limiter has just denied was denied on the
\* counter of its own (platform, channel).
C27_ChannelsDoNotStallEachOther ==
    \A j \in DeliveryJobs :
        /\ Blocked(j) =>
              \A w \in Consumers(j) : \A k \in Processing(w) : SameTarget(j, k)
        /\ (jobs[j].state = "delayed" /\ jobs[j].deniedAt = now) =>
              /\ RateKey(jobs[j].targetPlatform, jobs[j].targetChannelId) \in DOMAIN rate
              /\ rate[RateKey(jobs[j].targetPlatform, jobs[j].targetChannelId)].count
                    > PER_CHANNEL_LIMIT

(***************************************************************************)
(* Properties of the webhook repair                                        *)
(***************************************************************************)

\* repairAllBridgeWebhooks has returned.
StartupRepairDone == startup.stage = "run"

\* No createWebhook call has failed.
EveryCreationSucceeded == \A h \in hooks : h.id # NULL

\* C28: once the startup repair has run and every createWebhook call has
\* succeeded, every stored bridge, whichever side lacked credentials before
\* (Discord only, Fluxer only, or both), has webhook credentials for both
\* sides.
C28_StartupRepairCompletesBothSides ==
    (StartupRepairDone /\ EveryCreationSucceeded) =>
        \A b \in DOMAIN bridges :
            ~needsDiscordWebhook(bridges[b]) /\ ~needsFluxerWebhook(bridges[b])

\* The row has webhook id and token on both sides.
Complete(row) == ~needsDiscordWebhook(row) /\ ~needsFluxerWebhook(row)

DiscordCredentials(row) == <<row.discordWebhookId, row.discordWebhookToken>>

FluxerCredentials(row) == <<row.fluxerWebhookId, row.fluxerWebhookToken>>

\* repairBridgeWebhook is called in this step.
RepairCalled == startup'.calls = startup.calls + 1

\* The repairBridgeWebhook calls that return in this step.
RepairReturned == repairs \ repairs'

\* C29: repairBridgeWebhook called on a bridge that has id and token on both
\* sides calls createWebhook on neither platform and leaves the row as it
\* is; a repair creates a webhook only for a side it found without
\* credentials and never writes a side it found with credentials; a repair
\* in which every creation succeeded leaves the row with credentials on both
\* sides, and such a row stays so, so that a call after it creates nothing.
C29_RepairIsIdempotent ==
    [][/\ \A b \in DOMAIN bridges :
             (RepairCalled /\ startup'.last.bridgeId = b /\ Complete(bridges[b]))
                => /\ startup'.last.noop
                   /\ hooks' = hooks /\ repairs' = repairs /\ bridges' = bridges
       /\ \A h \in hooks' \ hooks :
             \E t \in RepairReturned :
                /\ h.call = t.call /\ h.bridgeId = t.bridgeId
                /\ IF h.platform = "discord" THEN t.needsDiscord ELSE t.needsFluxer
       /\ \A t \in RepairReturned :
             t.bridgeId \in DOMAIN bridges =>
                LET old == bridges[t.bridgeId]
                    new == bridges'[t.bridgeId]
                IN /\ ~t.needsDiscord => DiscordCredentials(new) = DiscordCredentials(old)
                   /\ ~t.needsFluxer => FluxerCredentials(new) = FluxerCredentials(old)
                   /\ (\A h \in hooks' \ hooks : h.id # NULL) => Complete(new)
       /\ \A b \in DOMAIN bridges : Complete(bridges[b]) => Complete(bridges'[b])]_vars

\* A repair of a bridge created its webhooks, and the call made after it on
\* the same bridge was a no-op.
C29_Witness ==
    /\ startup.last.noop
    /\ \E h \in hooks : /\ h.bridgeId = startup.last.bridgeId
                        /\ h.id # NULL /\ h.call < startup.calls

(***************************************************************************)
(* Properties of createBridge                                              *)
(***************************************************************************)

\* A createBridge call has been thrown out in this step.
CreateRejected == lastCall'.op = "createBridge" /\ lastCall' # lastCall

\* C30: createBridge for a channel pair that a stored bridge already joins
\* fails with an error that starts with 'Bridge validation failed: '; it
\* stores no second row for the pair, emits no bridge:created and starts no
\* worker set, and the stored bridges are as before the call.
C30_DuplicatePairIsRejected ==
    [][/\ CreateRejected =>
             /\ lastCall'.error[1] = "Bridge validation failed: "
             /\ bridges' = bridges /\ ops' = ops
             /\ workers' = workers /\ workerObjs' = workerObjs
       /\ \A o \in ops' \ ops :
             o.kind = "bridge:created" =>
                ~PairExists(o.row.discordChannelId, o.row.fluxerChannelId)
       /\ \A a \in DOMAIN bridges', b \in DOMAIN bridges' :
             (/\ bridges'[a].discordChannelId = bridges'[b].discordChannelId
              /\ bridges'[a].fluxerChannelId = bridges'[b].fluxerChannelId) => a = b]_vars

\* createBridge has been called for the pair of a stored bridge and has failed.
C30_Witness ==
    /\ lastCall.op = "createBridge" /\ lastCall.error = AlreadyExists
    /\ bridges # <<>>

(***************************************************************************)
(* Shutdown.  Janus.stop runs on SIGTERM / SIGINT: it destroys the two     *)
(* platform clients, then awaits routerWorker.close(), closeAll() of the   *)
(* worker manager, closeAllQueues, disconnectDatabase and disconnectRedis. *)
(* startup.stage tells where stop stands: "router" while it awaits the     *)
(* router worker, "workers" while it awaits closeAll, "stopped" after the  *)
(* connections are closed.  From "router" on both clients are destroyed.   *)
(* Bridge b1 has its worker set and its queue holds jobs.                  *)
(***************************************************************************)
\* stop up to its first await: shuttingDown, the disconnects, and the call
\* of routerWorker.close().  A call while shuttingDown returns at once.
JanusStop ==
    /\ startup.stage \in {"run", "router", "workers", "stopped"}
    /\ startup' = IF startup.stage = "run" THEN [startup EXCEPT !.stage = "router"]
                  ELSE [startup EXCEPT !.again = TRUE]
    /\ UNCHANGED <<hooks, repairs, starts, normalized, bridges, usedIds, ops, opCount,
                   workers, workerObjs, stopTasks, lastCall, otherVars>>

\* routerWorker.close() resolves once no ingest job is being processed.
RouterWorkerClosed ==
    /\ startup.stage = "router"
    /\ \A j \in DOMAIN jobs : ~(jobs[j].queue = IngestQueueName /\ jobs[j].state = "active")
    /\ startup' = [startup EXCEPT !.stage = "workers"]
    /\ UNCHANGED <<hooks, repairs, starts, normalized, bridges, usedIds, ops, opCount,
                   workers, workerObjs, stopTasks, lastCall, otherVars>>

\* closeAll: the for loop calls stopForBridge for the next bridge of the map
\* once the call before has returned.
CloseAllNext(bridgeId) ==
    /\ startup.stage = "workers" /\ stopTasks = {}
    /\ bridgeId \in DOMAIN workers
    /\ stopForBridge(bridgeId)
    /\ UNCHANGED <<bridges, usedIds, ops, opCount, lastCall, procVars, otherVars>>

\* closeAll has returned: closeAllQueues, disconnectDatabase, disconnectRedis.
ConnectionsClosed ==
    /\ startup.stage = "workers" /\ stopTasks = {} /\ workers = <<>>
    /\ startup' = [startup EXCEPT !.stage = "stopped"]
    /\ UNCHANGED <<hooks, repairs, starts, normalized, bridges, usedIds, ops, opCount,
                   workers, workerObjs, stopTasks, lastCall, otherVars>>

\* A destroyed client delivers no gateway event.
Connected == startup.stage \in {"find", "repair", "run"}

InitStop == InitDeliver

NextStop ==
    \/ JanusStop
    \/ RouterWorkerClosed
    \/ \E b \in DOMAIN workers : CloseAllNext(b)
    \/ \E w \in DOMAIN workerObjs : WorkerClosed(w)
    \/ ConnectionsClosed
    \/ DeliverySteps
    \/ (Connected /\ FluxerGateway)
    \/ Advance

SpecStop == InitStop /\ [][NextStop]_vars

(***************************************************************************)
(* Properties of the shutdown                                              *)
(***************************************************************************)

\* No worker takes jobs any more and no job is being processed.
WorkersQuiet ==
    /\ \A w \in DOMAIN workerObjs : workerObjs[w].state # "running"
    /\ \A j \in DOMAIN jobs : jobs[j].state # "active"

\* C31: on shutdown the workers have stopped taking jobs and their jobs in
\* flight have finished before the platform clients are disconnected and
\* before the queue, database and Redis connections are closed; once stop
\* has returned no worker set remains, and a second call of stop changes
\* nothing.
C31_WorkersDrainBeforeDisconnect ==
    [][/\ ~Connected' => WorkersQuiet'
       /\ startup'.stage = "stopped" => workers' = <<>>
       /\ (~Connected /\ startup'.stage = startup.stage /\ startup'.again)
             => (workers' = workers /\ stopTasks' = stopTasks)]_vars

(***************************************************************************)
(* Properties of the circuit breakers                                      *)
(***************************************************************************)

\* C32: every outbound platform call of a delivery worker and every
\* createWebhook of BridgeService is fired through a named circuit breaker,
\* and no call reaches the platform while its breaker is open.
C32_CallsGoThroughBreaker ==
    /\ \A c \in calls : c.breaker \in DOMAIN breakers /\ ~isCircuitOpen(c.breaker)
    /\ \A h \in hooks : h.platform \in DOMAIN breakers

(***************************************************************************)
(* Properties of the life of a loop-hash key                               *)
(***************************************************************************)

\* The registrations of fingerprint k.
RegistrationsOf(k) == {r \in regs : r.hash = k}

\* C33: a loop-hash key lives for at most HASH_TTL_SECONDS after the last
\* registerOutgoingHash of its fingerprint, so isLoopMessage drops no event
\* whose fingerprint was last registered HASH_TTL_SECONDS ago or earlier.
C33_LoopKeyExpires ==
    /\ \A k \in DOMAIN hashes :
          \E r \in RegistrationsOf(k) :
             /\ \A q \in RegistrationsOf(k) : q.at <= r.at
             /\ hashes[k].exp = r.at + HASH_TTL_SECONDS
             /\ now < r.at + HASH_TTL_SECONDS
    /\ \A content \in Texts, authorName \in Texts :
          isLoopMessage(content, authorName) =>
             \E r \in RegistrationsOf(generateContentHash(content, authorName, now)) :
                now - r.at < HASH_TTL_SECONDS

\* A fingerprint was registered HASH_TTL_SECONDS ago or earlier, within the
\* minute that still runs, and an event with it is no longer dropped.
C33_Witness ==
    \E r \in regs :
        /\ now - r.at >= HASH_TTL_SECONDS
        /\ generateContentHash(r.content, r.authorName, now) = r.hash
        /\ ~isLoopMessage(r.content, r.authorName)

(***************************************************************************)
(* Termination.  Bridge b1 has its worker set.  One event lies in the      *)
(* ingest queue and one MSG_CREATE job in the queue of a delivery worker,  *)
(* whose rate-limit window may be used up.  No further event is posted.    *)
(* The workers keep polling their queues and the clock keeps running.      *)
(***************************************************************************)
InitTerminate ==
    /\ InitMgr
    /\ \E target \in Platforms, limited \in BOOLEAN :
          /\ jobs = IngestAdd(Seeded(<<>>, {"MSG_CREATE"}, target, 1),
                              SeedEvent("MSG_CREATE", target), -1)
          /\ rate = IF limited
                    THEN RateKey(target, IF target = "discord" THEN "d1" ELSE "f1")
                           :> [count |-> PER_CHANNEL_LIMIT, exp |-> Start + 1]
                    ELSE <<>>
    /\ msgs = (1 :> Message("discord", "d1", <<"x">>, <<"u">>, FALSE, 0, 0)
               @@ 2 :> Message("fluxer", "f1", <<"x">>, <<"u">>, FALSE, 0, 0))
    /\ hashes = <<>> /\ grants = <<>> /\ checks = 0 /\ regs = {} /\ drops = {}
    /\ tracker = <<>> /\ gateway = [p \in Platforms |-> <<>>]
    /\ pending = <<>> /\ messageMap = {} /\ calls = {} /\ userOps = 0
    /\ now = Start

NextTerminate ==
    \/ IngestSteps
    \/ DeliverySteps
    \/ Advance

\* The jobs there can be: those of Init, the one the router adds, and the
\* ingest jobs of the gateway events that the deliveries cause.
TerminateJobs == MaxJobs + 2

FairTerminate ==
    /\ \A j \in 1..TerminateJobs : WF_vars(RouterFind(j)) /\ WF_vars(RouterDispatch(j))
    /\ WF_vars(DiscordSteps) /\ WF_vars(FluxerSteps)
    /\ WF_vars(DiscordGateway) /\ WF_vars(FluxerGateway)
    /\ WF_vars(Advance)

SpecTerminate == InitTerminate /\ [][NextTerminate]_vars /\ FairTerminate

(***************************************************************************)
(* Properties of termination                                               *)
(***************************************************************************)

\* Job j is completed (delivered or dropped) or has failed for good.
Terminal(j) == j \in DOMAIN jobs /\ jobs[j].state \in {"completed", "failed"}

\* Job j is to be retried at an instant that lies behind the horizon.
BeyondHorizon(j) ==
    j \in DOMAIN jobs /\ jobs[j].state = "delayed" /\ jobs[j].runAt > Horizon

AttemptsOf(j) == IF jobs[j].queue = IngestQueueName THEN INGEST_ATTEMPTS ELSE DELIVERY_ATTEMPTS

\* C34: every job reaches a terminal state (completed, dropped or failed for
\* good); a job fails at most DELIVERY_ATTEMPTS times (an ingest job
\* INGEST_ATTEMPTS times), and a rate-limit reschedule uses up no attempt.
C34_EveryJobTerminates ==
    /\ [](\A j \in DOMAIN jobs : jobs[j].attemptsMade <= AttemptsOf(j))
    /\ [][\A j \in DOMAIN jobs :
             (jobs'[j].deniedAt = now /\ jobs'[j].deniedAt # jobs[j].deniedAt)
                => jobs'[j].attemptsMade = jobs[j].attemptsMade]_vars
    /\ \A j \in 1..TerminateJobs :
          (j \in DOMAIN jobs) ~> (Terminal(j) \/ BeyondHorizon(j))

(***************************************************************************)
(* The rate limiter call by call.  checkRateLimit awaits redis.incr and,   *)
(* when that returned 1, awaits redis.expire: two commands, between which  *)
(* other callers run and the process may stop.  A key that INCR creates    *)
(* has no TTL until EXPIRE gives it one; `by` is the run of the process    *)
(* whose call created the key.                                             *)
(***************************************************************************)
\* redis.incr(limitKey) of a checkRateLimit call.
RateIncr(platform, channelId) ==
    /\ checks < MaxChecks
    /\ LET k == RateKey(platform, channelId)
           n == currentUsage(platform, channelId)
           g == <<platform, channelId, now>>
       IN /\ rate' = With(rate, k, IF n = 1 THEN [count |-> 1, exp |-> NoTtl, by |-> starts]
                                   ELSE [rate[k] EXCEPT !.count = n])
          /\ grants' = IF RateAllowed(platform, channelId)
                        THEN With(grants, g, IF g \in DOMAIN grants THEN grants[g] + 1 ELSE 1)
                        ELSE grants
    /\ checks' = checks + 1
    /\ UNCHANGED <<now, hashes, regs, drops, tracker, pipeVars, mgrVars>>

\* redis.expire(limitKey, WINDOW_SECONDS) of the call whose INCR returned 1.
RateExpire(k) ==
    /\ k \in DOMAIN rate /\ rate[k].exp = NoTtl /\ rate[k].by = starts
    /\ rate' = [rate EXCEPT ![k].exp = now + WINDOW_SECONDS]
    /\ UNCHANGED <<now, hashes, grants, checks, regs, drops, tracker, pipeVars, mgrVars>>

NextCrash ==
    \/ \E p \in Platforms : RateIncr(p, IF p = "discord" THEN "d1" ELSE "f1")
    \/ \E k \in DOMAIN rate : RateExpire(k)
    \/ (now < MaxNow /\ Tick(1))
    \/ Restart

SpecCrash == InitRate /\ [][NextCrash]_vars

(***************************************************************************)
(* Properties of the life of a rate-limit key                              *)
(***************************************************************************)

\* C35: every rate-limit key has a TTL of at most WINDOW_SECONDS, or is about
\* to get it from the call that created it, also when workers increment
\* concurrently and when the process stops between INCR and EXPIRE; so no
\* channel stays denied for longer than WINDOW_SECONDS after its last job.
C35_RateKeyAlwaysExpires ==
    \A k \in DOMAIN rate :
        IF rate[k].exp = NoTtl
        THEN rate[k].by = starts
        ELSE rate[k].exp > now /\ rate[k].exp - now <= WINDOW_SECONDS

(***************************************************************************)
(* Correlated capture.  sendWebhook registers a pending entry and waits;   *)
(* the MessageCreate handler hands the id of the first gateway message     *)
(* that matches (channelId, content, username) to the oldest matching      *)
(* entry, before it looks at the author.                                   *)
(***************************************************************************)
\* Fluxer MSG_CREATE deliveries whose sendWebhook call has been given an id.
Captured ==
    {j \in DeliveryJobs : /\ jobs[j].targetPlatform = "fluxer"
                          /\ jobs[j].event.type = "MSG_CREATE"
                          /\ jobs[j].destMsgId # 0}

\* C36: correlated capture pairs each webhook send with its own echo: the id
\* a send receives is the id of the message that send produced (never a
\* message a user wrote), and no message id is given to two sends.
C36_CapturePairsSendWithOwnEcho ==
    /\ \A j \in Captured : /\ jobs[j].destMsgId \in DOMAIN msgs
                           /\ msgs[jobs[j].destMsgId].by = j
    /\ \A j, k \in Captured : jobs[j].destMsgId = jobs[k].destMsgId => j = k

\* C37: once all bridge event handlers have run to completion, every bridge
\* stored with isActive = true has a worker set in the DeliveryWorkerManager.
C37_ActiveHasWorkerSet ==
    Quiescent => \A b \in DOMAIN bridges : bridges[b].isActive => b \in DOMAIN workers

(***************************************************************************)
(* Retried creates.  One MSG_CREATE job lies in a worker's queue.  After   *)
(* the send and prisma.messageMap.create, registerOutgoingHash may throw   *)
(* (Redis refuses the command): the handler throws and BullMQ retries the  *)
(* job.  The workers look rows up with findFirst and change them by their  *)
(* `id`; the table is taken to have no other key.                          *)
(***************************************************************************)
\* handleMessageCreate of the Discord worker when registerOutgoingHash throws.
DiscordRecordFails(j) ==
    /\ j \in DOMAIN jobs /\ jobs[j].queue = DiscordDeliveryWorkerQueue
    /\ jobs[j].state = "active" /\ jobs[j].pc = "sent"
    /\ messageMap' = messageMap \cup {MapRow(j, "discord", jobs[j].destMsgId)}
    /\ jobs' = Failed(jobs, j, DELIVERY_ATTEMPTS, DELIVERY_BACKOFF_SECONDS)
    /\ UNCHANGED <<now, kvVars, msgs, gateway, pending, calls, userOps, mgrVars>>

\* handleMessageCreate of the Fluxer worker when registerOutgoingHash throws.
FluxerRecordFails(j) ==
    /\ j \in DOMAIN jobs /\ jobs[j].state = "active" /\ jobs[j].pc = "resolved"
    /\ jobs[j].event.type = "MSG_CREATE"
    /\ messageMap' = IF jobs[j].destMsgId # 0
                     THEN messageMap \cup {MapRow(j, "fluxer", jobs[j].destMsgId)}
                     ELSE messageMap
    /\ jobs' = Failed(jobs, j, DELIVERY_ATTEMPTS, DELIVERY_BACKOFF_SECONDS)
    /\ UNCHANGED <<now, kvVars, msgs, gateway, pending, calls, userOps, mgrVars>>

InitRetry == InitInbound

NextRetry ==
    \/ DeliverySteps
    \/ \E j \in DOMAIN jobs : DiscordRecordFails(j)
    \/ \E j \in DOMAIN jobs : FluxerRecordFails(j)
    \/ FluxerGateway
    \/ Advance

SpecRetry == InitRetry /\ [][NextRetry]_vars

SameSource(r, s) ==
    /\ r.pairId = s.pairId
    /\ r.sourcePlatform = s.sourcePlatform
    /\ r.sourceMsgId = s.sourceMsgId

\* C38: in every reachable state the MessageMap table holds at most one row
\* per (pairId, sourcePlatform, sourceMsgId).
C38_OneRowPerSourceMessage ==
    \A r, s \in messageMap : SameSource(r, s) => r = s

\* Every job has finished and a MSG_DELETE delivery to Fluxer has completed.
DeleteSettled ==
    /\ \A j \in DOMAIN jobs : jobs[j].state \in {"completed", "failed"}
    /\ \E j \in DeliveryJobs : /\ jobs[j].event.type = "MSG_DELETE"
                               /\ jobs[j].targetPlatform = "fluxer"
                               /\ jobs[j].state = "completed"

\* Messages the bridge has posted on Fluxer that are still there.
LeftOnFluxer ==
    {id \in DOMAIN msgs : /\ msgs[id].platform = "fluxer"
                          /\ msgs[id].by # 0
                          /\ ~msgs[id].deleted}

\* C39: after a MSG_DELETE delivery for a source message has completed and
\* every other job for that source message has finished, no message the
\* bridge posted for it (destination message or edit-update message) remains
\* on the Fluxer channel and no edit-update tracker key remains for it.
C39_DeleteLeavesNothingBehind ==
    DeleteSettled => (LeftOnFluxer = {} /\ Alive(tracker, now) = {})

\* The MSG_UPDATE jobs to Fluxer, and the one that was enqueued last.
EditJobs ==
    {j \in DeliveryJobs : jobs[j].event.type = "MSG_UPDATE" /\ jobs[j].targetPlatform = "fluxer"}

LastEdit == CHOOSE j \in EditJobs : \A k \in EditJobs : k <= j

\* Every job has finished, each of several MSG_UPDATE jobs has posted its
\* edit-update message and got its id, and the platform refused no call.
EditsSettled ==
    /\ \A j \in DOMAIN jobs : jobs[j].state \in {"completed", "failed"}
    /\ Cardinality(EditJobs) > 1
    /\ \A j \in EditJobs : jobs[j].destMsgId # 0 /\ jobs[j].state = "completed"
    /\ \A c \in calls : ~c.refused

\* C40: when several MSG_UPDATE jobs for the same source message have been
\* processed, the edit-update message that remains on the target channel, and
\* whose id the tracker key holds, carries the content of the update that was
\* enqueued last.
C40_LastEditRemains ==
    EditsSettled =>
        /\ \A id \in DOMAIN msgs :
              (msgs[id].by \in EditJobs /\ ~msgs[id].deleted) =>
                  msgs[id].content = jobs[LastEdit].body
        /\ \A k \in DOMAIN tracker :
              tracker[k].id \in DOMAIN msgs /\ msgs[tracker[k].id].content = jobs[LastEdit].body
====
